---------------------------- MODULE Spec2Model ----------------------------
(***************************************************************************)
(* A model of rtp2httpd's per-connection data plane: the send queue with   *)
(* adaptive backpressure (connection.c), the HTTP request routing          *)
(* (connection.c) and the upstream stream context (stream.c).              *)
(*                                                                         *)
(* One connection (record c), its stream context (record ctx), the         *)
(* process-wide buffer pool (record pool) and the status table counters    *)
(* are the state.  C functions are operators from records to records; the  *)
(* handlers are the actions.  Collaborators whose code is not part of the  *)
(* sources at hand (zerocopy.c, http.c, fcc.c, rtp.c, status.c) are        *)
(* modelled from the design document and marked so in the map.             *)
(***************************************************************************)
EXTENDS Integers, Sequences, FiniteSets, TLC

VARIABLES
    c,          \* connection_t of the connection under study
    pool,       \* zerocopy_state.pool (buffer_pool_t) and the buffers other connections hold
    env,        \* process-wide collaborators: clock, active streams, status table, config
    ctx,        \* stream_context_t of the connection
    obs         \* observation of the run: what was enqueued, what reached the socket, last call

vars == <<c, pool, env, ctx, obs>>

(***************************************************************************)
(* Program constants                                                       *)
(***************************************************************************)
CONN_QUEUE_MIN_BUFFERS == 64
CONN_QUEUE_SLOW_DEBOUNCE_MS == 3000
\* The double factors of connection.c, in tenths (3.0, 1.5, 1.0, 0.8) ...
CONN_QUEUE_BURST_FACTOR == 30
CONN_QUEUE_BURST_FACTOR_CONGESTED == 15
CONN_QUEUE_BURST_FACTOR_DRAIN == 10
CONN_QUEUE_SLOW_CLAMP_FACTOR == 8
CONN_QUEUE_SLOW_FACTOR == 15
CONN_QUEUE_SLOW_EXIT_FACTOR == 11
\* ... and in hundredths (0.85, 0.95, 0.9, 0.75)
CONN_QUEUE_HIGH_UTIL_THRESHOLD == 85
CONN_QUEUE_DRAIN_UTIL_THRESHOLD == 95
CONN_QUEUE_SLOW_LIMIT_RATIO == 90
CONN_QUEUE_SLOW_EXIT_LIMIT_RATIO == 75
\* EWMA alpha 0.2 = 1/5
CONN_QUEUE_EWMA_ALPHA_DEN == 5

\* Constants of headers that are not among the sources (design document values)
BUFFER_POOL_BUFFER_SIZE == 2048
BUFFER_POOL_INITIAL_SIZE == 128
BUFFER_POOL_EXPAND_SIZE == 64
ZEROCOPY_MAX_IOVECS == 64
HTTP_URL_BUFFER_SIZE == 1024

\* queue_avg_bytes is a double; the model keeps it in 1/AvgScale bytes
AvgScale == 1000

CONN_READ_REQ_LINE == "READ_REQ_LINE"
CONN_READ_HEADERS == "READ_HEADERS"
CONN_ROUTE == "ROUTE"
CONN_STREAMING == "STREAMING"
CONN_CLOSING == "CLOSING"

CONNECTION_BUFFER_CONTROL == "control"
CONNECTION_BUFFER_MEDIA == "media"

CONNECTION_WRITE_IDLE == "IDLE"
CONNECTION_WRITE_PENDING == "PENDING"
CONNECTION_WRITE_BLOCKED == "BLOCKED"
CONNECTION_WRITE_CLOSED == "CLOSED"

Min(a, b) == IF a < b THEN a ELSE b
Max(a, b) == IF a > b THEN a ELSE b

(***************************************************************************)
(* Buffer pool (design document 4.1): counts only.                         *)
(***************************************************************************)
\* buffer_pool_alloc: from the free list; grows by a chunk when the free list is
\* empty and the hard cap allows; fails (ok = FALSE) only at the hard cap.
buffer_pool_alloc(p) ==
    IF p.num_free > 0
    THEN [ok |-> TRUE, pool |-> [p EXCEPT !.num_free = @ - 1]]
    ELSE IF p.num_buffers < p.max_buffers
         THEN LET grow == Min(BUFFER_POOL_EXPAND_SIZE, p.max_buffers - p.num_buffers)
              IN  [ok |-> TRUE,
                   pool |-> [p EXCEPT !.num_buffers = @ + grow, !.num_free = grow - 1]]
         ELSE [ok |-> FALSE, pool |-> p]

\* buffer_ref_put of the last reference of n buffers: back to the free list
buffer_ref_put(p, n) == [p EXCEPT !.num_free = @ + n]

\* connection_alloc_output_buffer: the control carve-out falls back to the
\* ordinary allocation, so both classes fail only when the pool is exhausted
connection_alloc_output_buffer(conn, p) == buffer_pool_alloc(p)

(***************************************************************************)
(* Backpressure limit                                                      *)
(***************************************************************************)
\* (size_t)((double)fair_bytes * burst_factor), burst in tenths
BurstBytes(fair_bytes, burst10) == (fair_bytes * burst10) \div 10

\* The cap of connection_compute_limit_bytes for a pool with max_buffers > 0:
\* the pool less the reserve when the pool is larger than the reserve
HardCap(p) ==
    IF p.max_buffers > CONN_QUEUE_MIN_BUFFERS
    THEN (p.max_buffers - CONN_QUEUE_MIN_BUFFERS) * BUFFER_POOL_BUFFER_SIZE
    ELSE p.max_buffers * BUFFER_POOL_BUFFER_SIZE

connection_compute_limit_bytes(p, fair_bytes, burst10) ==
    Max(BUFFER_POOL_BUFFER_SIZE * 4,
        IF p.max_buffers > 0
        THEN Min(BurstBytes(fair_bytes, burst10), HardCap(p))
        ELSE BurstBytes(fair_bytes, burst10))

\* share_buffers of connection_calculate_queue_limit
ShareBuffers(p, active_streams) ==
    Max(CONN_QUEUE_MIN_BUFFERS,
        (IF p.num_buffers # 0 THEN p.num_buffers ELSE BUFFER_POOL_INITIAL_SIZE)
            \div (IF active_streams = 0 THEN 1 ELSE active_streams))

\* utilization >= t/100, where utilization = used / max (0.0 when max = 0)
UtilizationAtLeast(p, t) ==
    /\ p.max_buffers > 0
    /\ (IF p.num_buffers > p.num_free THEN p.num_buffers - p.num_free ELSE 0) * 100
          >= t * p.max_buffers

\* burst_factor before the slow-client clamp, in tenths
BurstFactor(p) ==
    IF p.num_free < p.low_watermark \div 2
          \/ UtilizationAtLeast(p, CONN_QUEUE_DRAIN_UTIL_THRESHOLD)
    THEN CONN_QUEUE_BURST_FACTOR_DRAIN
    ELSE IF p.num_buffers >= p.max_buffers
               \/ UtilizationAtLeast(p, CONN_QUEUE_HIGH_UTIL_THRESHOLD)
         THEN CONN_QUEUE_BURST_FACTOR_CONGESTED
         ELSE CONN_QUEUE_BURST_FACTOR

\* The EWMA step on the scaled average; a positive double never decays to 0
EwmaStep(avg, q) ==
    IF avg <= 0
    THEN q * AvgScale
    ELSE Max(1, ((CONN_QUEUE_EWMA_ALPHA_DEN - 1) * avg + q * AvgScale)
                    \div CONN_QUEUE_EWMA_ALPHA_DEN)

\* slow_threshold, in 1/AvgScale bytes
SlowThreshold(fair_bytes, bursted_bytes) ==
    Min(fair_bytes * (CONN_QUEUE_SLOW_FACTOR * (AvgScale \div 10)),
        bursted_bytes * (CONN_QUEUE_SLOW_LIMIT_RATIO * (AvgScale \div 100)))

\* slow_exit_threshold kept below slow_threshold
ExitBelow(exit_threshold, slow_threshold) ==
    IF exit_threshold >= slow_threshold
    THEN (slow_threshold \div 100) * CONN_QUEUE_SLOW_EXIT_LIMIT_RATIO
    ELSE exit_threshold

\* slow_exit_threshold, in 1/AvgScale bytes
SlowExitThreshold(fair_bytes, bursted_bytes) ==
    ExitBelow(Min(fair_bytes * (CONN_QUEUE_SLOW_EXIT_FACTOR * (AvgScale \div 10)),
                  bursted_bytes * (CONN_QUEUE_SLOW_EXIT_LIMIT_RATIO * (AvgScale \div 100))),
              SlowThreshold(fair_bytes, bursted_bytes))

\* A variant of the debounce that keeps the candidate time when the average is
\* not above the threshold
SlowDebounce_no_restart(conn, slow_threshold, now_ms) ==
    IF conn.slow_candidate_since = 0
    THEN IF conn.queue_avg_bytes > slow_threshold
         THEN [conn EXCEPT !.slow_candidate_since = now_ms] ELSE conn
    ELSE IF /\ ~conn.slow_active
            /\ now_ms >= conn.slow_candidate_since
            /\ now_ms - conn.slow_candidate_since >= CONN_QUEUE_SLOW_DEBOUNCE_MS
         THEN [conn EXCEPT !.slow_active = TRUE]
         ELSE conn

\* Entering the slow state: the average has to stay above the threshold for
\* the debounce time
SlowDebounce(conn, slow_threshold, now_ms) ==
    IF conn.queue_avg_bytes > slow_threshold
    THEN IF conn.slow_candidate_since = 0
         THEN [conn EXCEPT !.slow_candidate_since = now_ms]
         ELSE IF /\ ~conn.slow_active
                 /\ now_ms >= conn.slow_candidate_since
                 /\ now_ms - conn.slow_candidate_since >= CONN_QUEUE_SLOW_DEBOUNCE_MS
              THEN [conn EXCEPT !.slow_active = TRUE]
              ELSE conn
    ELSE [conn EXCEPT !.slow_candidate_since = 0]

\* A variant in which a slow connection stays slow
SlowLeave_stay(conn, slow_exit_threshold) == conn

\* Leaving the slow state
SlowLeave(conn, slow_exit_threshold) ==
    IF conn.slow_active /\ conn.queue_avg_bytes < slow_exit_threshold
    THEN [conn EXCEPT !.slow_active = FALSE, !.slow_candidate_since = 0]
    ELSE conn

\* A variant that leaves the burst factor of a slow connection as it is
ClampedLimit_unclamped(conn, p, fair_bytes, burst10) ==
    [limit |-> connection_compute_limit_bytes(p, fair_bytes, burst10), conn |-> conn]

\* The limit for a connection whose slow state is up to date
ClampedLimit(conn, p, fair_bytes, burst10) ==
    [limit |-> connection_compute_limit_bytes(p, fair_bytes,
                  IF conn.slow_active /\ burst10 > CONN_QUEUE_SLOW_CLAMP_FACTOR
                  THEN CONN_QUEUE_SLOW_CLAMP_FACTOR ELSE burst10),
     conn |-> conn]

\* connection_calculate_queue_limit from the average update on
QueueLimitFrom(conn, p, fair_bytes, burst10, now_ms) ==
    ClampedLimit(
        SlowLeave(
            SlowDebounce(
                [conn EXCEPT !.queue_avg_bytes =
                    EwmaStep(@, Len(conn.zc_queue) * BUFFER_POOL_BUFFER_SIZE)],
                SlowThreshold(fair_bytes,
                              connection_compute_limit_bytes(p, fair_bytes, burst10)),
                now_ms),
            SlowExitThreshold(fair_bytes,
                              connection_compute_limit_bytes(p, fair_bytes, burst10))),
        p, fair_bytes, burst10)

\* connection_calculate_queue_limit: returns the limit and the connection with
\* its queue_avg_bytes / slow_active / slow_candidate_since updated
connection_calculate_queue_limit(conn, p, active_streams, now_ms) ==
    QueueLimitFrom(conn, p, ShareBuffers(p, active_streams) * BUFFER_POOL_BUFFER_SIZE,
                   BurstFactor(p), now_ms)

(***************************************************************************)
(* Send queue (design document 4.2).  An item is a buffer reference        *)
(* carrying the bytes [lo, hi) of message msg; lo advances on a partial    *)
(* send.  num_queued is Len(zc_queue).                                     *)
(***************************************************************************)
ZEROCOPY_FLUSH_BYTES == 8192
ZEROCOPY_FLUSH_DEADLINE_MS == 100

ItemBytes(it) == it.hi - it.lo

RECURSIVE SumBytes(_)
SumBytes(q) == IF q = <<>> THEN 0 ELSE ItemBytes(Head(q)) + SumBytes(Tail(q))

\* zerocopy_queue_add: append at the tail, taking a reference
zerocopy_queue_add(conn, buf, now_ms) ==
    [conn EXCEPT !.zc_queue = Append(@, buf),
                 !.zc_first_ms = IF conn.zc_queue = <<>> THEN now_ms ELSE @]

\* zerocopy_should_flush: enough bytes buffered, or the oldest packet has waited
\* for the flush deadline
zerocopy_should_flush(conn, now_ms) ==
    /\ conn.zc_queue # <<>>
    /\ \/ SumBytes(conn.zc_queue) >= ZEROCOPY_FLUSH_BYTES
       \/ now_ms - conn.zc_first_ms >= ZEROCOPY_FLUSH_DEADLINE_MS

\* connection_epoll_update_events: only the EPOLLOUT bit differs between the calls
connection_epoll_update_events(conn, epollout) == [conn EXCEPT !.epollout = epollout]

\* A variant that closes the connection on a drop
connection_record_drop_closing(conn, len) ==
    [conn EXCEPT !.dropped_packets = @ + 1,
                 !.dropped_bytes = @ + len,
                 !.backpressure_events = @ + 1,
                 !.state = CONN_CLOSING]

connection_record_drop(conn, len) ==
    [conn EXCEPT !.dropped_packets = @ + 1,
                 !.dropped_bytes = @ + len,
                 !.backpressure_events = @ + 1]

\* connection_report_queue: copies the telemetry into the status slot, if any
connection_report_queue(conn, e) ==
    IF conn.status_index < 0
    THEN e
    ELSE [e EXCEPT !.slot_queue =
            [queue_bytes |-> Len(conn.zc_queue) * BUFFER_POOL_BUFFER_SIZE,
             queue_buffers |-> Len(conn.zc_queue),
             queue_limit_bytes |-> conn.queue_limit_bytes,
             queue_bytes_highwater |-> conn.queue_bytes_highwater,
             dropped_packets |-> conn.dropped_packets,
             slow_active |-> conn.slow_active]]

\* A variant of the drop branch that falls through to zerocopy_queue_add
queue_zerocopy_drop_fallthrough(conn, e, buf) ==
    [ret |-> -1,
     conn |-> zerocopy_queue_add(connection_record_drop(conn, ItemBytes(buf)), buf, e.now_ms),
     env |-> connection_report_queue(connection_record_drop(conn, ItemBytes(buf)), e)]

\* The drop branch of connection_queue_zerocopy, conn holding the fresh limit
queue_zerocopy_drop(conn, e, buf) ==
    [ret |-> -1,
     conn |-> connection_record_drop(conn, ItemBytes(buf)),
     env |-> connection_report_queue(connection_record_drop(conn, ItemBytes(buf)), e)]

\* The high-water marks after a successful zerocopy_queue_add; queued_bytes is
\* the value computed before the add
queue_zerocopy_highwater(conn, queued_bytes) ==
    [conn EXCEPT !.queue_bytes_highwater = IF queued_bytes > @ THEN queued_bytes ELSE @,
                 !.queue_buffers_highwater =
                     IF Len(conn.zc_queue) > @ THEN Len(conn.zc_queue) ELSE @]

\* The tail of the accept branch: report, then arm EPOLLOUT when a flush is due
queue_zerocopy_accepted(conn, e) ==
    [ret |-> 0,
     conn |-> IF zerocopy_should_flush(conn, e.now_ms)
              THEN connection_epoll_update_events(conn, TRUE) ELSE conn,
     env |-> connection_report_queue(conn, e)]

\* A variant that also rejects the buffer that exactly fills the allowance
queue_zerocopy_check_ge(conn, e, buf, queued_bytes) ==
    IF queued_bytes + ItemBytes(buf) >= conn.queue_limit_bytes
    THEN queue_zerocopy_drop(conn, e, buf)
    ELSE queue_zerocopy_accepted(
             queue_zerocopy_highwater(zerocopy_queue_add(conn, buf, e.now_ms),
                                      queued_bytes), e)

\* connection_queue_zerocopy from the limit check on; conn holds the fresh limit
queue_zerocopy_check(conn, e, buf, queued_bytes) ==
    IF queued_bytes + ItemBytes(buf) > conn.queue_limit_bytes
    THEN queue_zerocopy_drop(conn, e, buf)
    ELSE queue_zerocopy_accepted(
             queue_zerocopy_highwater(zerocopy_queue_add(conn, buf, e.now_ms),
                                      queued_bytes), e)

\* c->queue_limit_bytes = limit_bytes, on the connection the limit computation left
StoreLimit(r) == [r.conn EXCEPT !.queue_limit_bytes = r.limit]

\* connection_queue_zerocopy: [ret, conn, env]
connection_queue_zerocopy(conn, p, e, buf) ==
    IF ItemBytes(buf) = 0
    THEN [ret |-> 0, conn |-> conn, env |-> e]
    ELSE queue_zerocopy_check(
             StoreLimit(connection_calculate_queue_limit(conn, p, e.active_streams,
                                                         e.now_ms)),
             e, buf, Len(conn.zc_queue) * BUFFER_POOL_BUFFER_SIZE)

\* connection_queue_output copies the bytes of message msg into as many pool
\* buffers as needed.  The loop state st is [ret, conn, pool, env, queued, msg,
\* src, remaining]; queued lists the chunks the queue accepted.
OutputChunk(st) ==
    [msg |-> st.msg, lo |-> st.src,
     hi |-> st.src + Min(st.remaining, BUFFER_POOL_BUFFER_SIZE)]

\* One chunk after connection_queue_zerocopy returned r for it
queue_output_queued(st, p, buf, r) ==
    IF r.ret < 0
    THEN [st EXCEPT !.ret = -1, !.conn = r.conn, !.env = r.env,
                    !.pool = buffer_ref_put(p, 1)]
    ELSE [st EXCEPT !.conn = r.conn, !.env = r.env, !.pool = p,
                    !.src = @ + ItemBytes(buf), !.remaining = @ - ItemBytes(buf),
                    !.queued = Append(@, buf)]

\* One chunk after connection_alloc_output_buffer returned a for it
queue_output_allocated(st, a) ==
    IF ~a.ok
    THEN [st EXCEPT !.ret = -1]
    ELSE queue_output_queued(st, a.pool, OutputChunk(st),
             connection_queue_zerocopy(st.conn, a.pool, st.env, OutputChunk(st)))

RECURSIVE connection_queue_output_loop(_)
connection_queue_output_loop(st) ==
    IF st.remaining = 0 \/ st.ret < 0
    THEN st
    ELSE connection_queue_output_loop(
             queue_output_allocated(st, connection_alloc_output_buffer(st.conn, st.pool)))

\* connection_queue_output: [ret, conn, pool, env, queued, ...]
connection_queue_output(conn, p, e, msg, len) ==
    connection_queue_output_loop(
        [ret |-> 0, conn |-> conn, pool |-> p, env |-> e, queued |-> <<>>,
         msg |-> msg, src |-> 0, remaining |-> len])

\* EPOLLOUT is armed when everything was queued
output_and_flush(r) ==
    IF r.ret < 0 THEN r
    ELSE [r EXCEPT !.conn = connection_epoll_update_events(r.conn, TRUE)]

connection_queue_output_and_flush(conn, p, e, msg, len) ==
    output_and_flush(connection_queue_output(conn, p, e, msg, len))

\* The bytes zerocopy_send may offer to the socket in one call: the first
\* ZEROCOPY_MAX_IOVECS items
BatchBytes(q) == SumBytes(SubSeq(q, 1, Min(Len(q), ZEROCOPY_MAX_IOVECS)))

\* Consuming n bytes from the head of q, acc being what was consumed before:
\* [rest, segs, done]; a partial send advances the head item's offset
RECURSIVE Consume(_, _, _)
Consume(q, n, acc) ==
    IF n = 0 \/ q = <<>>
    THEN [rest |-> q, segs |-> acc, done |-> Len(acc)]
    ELSE IF n >= ItemBytes(Head(q))
         THEN Consume(Tail(q), n - ItemBytes(Head(q)), Append(acc, Head(q)))
         ELSE [rest |-> <<[Head(q) EXCEPT !.lo = @ + n]>> \o Tail(q),
               segs |-> Append(acc, [Head(q) EXCEPT !.hi = Head(q).lo + n]),
               done |-> Len(acc)]

\* zerocopy_send once r was consumed from the queue: the fully sent buffers are
\* released, or kept by a pending entry until the completion when the send was
\* a zero-copy one (zc)
zerocopy_sent(conn, p, zc, r) ==
    [conn |-> [conn EXCEPT !.zc_queue = r.rest,
                           !.zc_pending = IF zc /\ r.done > 0 THEN Append(@, r.done) ELSE @],
     pool |-> IF zc /\ r.done > 0 THEN p ELSE buffer_ref_put(p, r.done),
     segs |-> r.segs]

\* zerocopy_send, the kernel accepting n bytes (n >= 1): [conn, pool, segs]
zerocopy_send(conn, p, n, zc) == zerocopy_sent(conn, p, zc, Consume(conn.zc_queue, n, <<>>))

\* on_completion: the kernel acknowledges the oldest pending zero-copy send
zerocopy_handle_completions(conn, p) ==
    [conn |-> [conn EXCEPT !.zc_pending = Tail(@)],
     pool |-> buffer_ref_put(p, Head(conn.zc_pending))]

\* What connection_handle_write returns: the status, with the queue reported
handle_write_result(status, conn, p, e, segs) ==
    [status |-> status, conn |-> conn, pool |-> p,
     env |-> connection_report_queue(conn, e), segs |-> segs]

\* A variant that does not wait for the pending zero-copy operations
handle_write_drained_ignoring_pending(conn, p, e, segs) ==
    handle_write_result(IF conn.state = CONN_CLOSING
                        THEN CONNECTION_WRITE_CLOSED ELSE CONNECTION_WRITE_IDLE,
                        conn, p, e, segs)

\* The status of a write that left the queue empty
handle_write_drained(conn, p, e, segs) ==
    handle_write_result(IF conn.state = CONN_CLOSING /\ conn.zc_pending = <<>>
                        THEN CONNECTION_WRITE_CLOSED ELSE CONNECTION_WRITE_IDLE,
                        conn, p, e, segs)

\* connection_handle_write after zerocopy_send returned s with bytes sent
handle_write_sent(s, e) ==
    IF s.conn.zc_queue # <<>>
    THEN handle_write_result(CONNECTION_WRITE_PENDING, s.conn, s.pool, e, s.segs)
    ELSE handle_write_drained(connection_epoll_update_events(s.conn, FALSE),
                              s.pool, e, s.segs)

\* connection_handle_write; out is what zerocopy_send meets on the socket:
\* [kind |-> "fatal"], [kind |-> "block"] or [kind |-> "sent", n, zc].
\* Result [status, conn, pool, env, segs]
connection_handle_write(conn, p, e, out) ==
    IF conn.zc_queue = <<>>
    THEN handle_write_drained(conn, p, e, <<>>)
    ELSE IF out.kind = "fatal"
    THEN handle_write_result(CONNECTION_WRITE_CLOSED, [conn EXCEPT !.state = CONN_CLOSING],
                             p, e, <<>>)
    ELSE IF out.kind = "block"
    THEN handle_write_result(CONNECTION_WRITE_BLOCKED, conn, p, e, <<>>)
    ELSE handle_write_sent(zerocopy_send(conn, p, out.n, out.zc), e)

\* No service_t (a NULL pointer) and an http_request_t before any parse
NoService ==
    [kind |-> "none", url |-> <<>>, service_type |-> "none", fcc_addr |-> FALSE,
     rtsp_url |-> FALSE, user_agent |-> <<>>]

NoRequest ==
    [method |-> <<>>, url |-> <<>>, hostname |-> <<>>, user_agent |-> <<>>,
     accept |-> <<>>, x_request_snapshot |-> FALSE]

(***************************************************************************)
(* connection_create                                                       *)
(***************************************************************************)
connection_create(zerocopy_enabled, has_addr) ==
    [state |-> CONN_READ_REQ_LINE,
     service |-> NoService, service_owned |-> FALSE, http_req |-> NoRequest,
     streaming |-> FALSE, sse_active |-> FALSE, status_index |-> -1,
     client_addr_len |-> IF has_addr THEN 1 ELSE 0,
     fd |-> 1, in_len |-> 0,
     zc_queue |-> <<>>, zc_pending |-> <<>>, zc_first_ms |-> 0,
     zerocopy_enabled |-> zerocopy_enabled, epollout |-> FALSE,
     buffer_class |-> CONNECTION_BUFFER_CONTROL,
     queue_limit_bytes |-> 0, queue_bytes_highwater |-> 0,
     queue_buffers_highwater |-> 0,
     dropped_packets |-> 0, dropped_bytes |-> 0, backpressure_events |-> 0,
     stream_registered |-> FALSE,
     queue_avg_bytes |-> 0, slow_active |-> FALSE, slow_candidate_since |-> 0]

\* zerocopy_queue_cleanup: every queued and pending buffer reference is released
zerocopy_queue_cleanup(conn, p) ==
    LET RECURSIVE Sum(_)
        Sum(q) == IF q = <<>> THEN 0 ELSE Head(q) + Sum(Tail(q))
    IN  [conn |-> [conn EXCEPT !.zc_queue = <<>>, !.zc_pending = <<>>],
         pool |-> buffer_ref_put(p, Len(conn.zc_queue) + Sum(conn.zc_pending))]

\* The mutant of stream_context_cleanup: the service pointer is cleared on
\* every call
stream_context_cleanup_clears_service(w, rtsp_async) ==
    [w EXCEPT !.pool = buffer_ref_put(@, Cardinality(w.ctx.reorder_slots)),
              !.ctx.reorder_slots = {},
              !.ctx.fcc_sock = 0,
              !.ctx.rtsp_socket = IF rtsp_async THEN @ ELSE 0,
              !.ctx.mcast_sock = 0,
              !.env.mcast_joined = IF w.ctx.mcast_sock > 0 THEN @ - 1 ELSE @,
              !.ctx.service = NoService]

\* stream_context_cleanup: the reorder slots are released, the FCC session is
\* cleaned up and the multicast socket closed; when the RTSP session started
\* an asynchronous TEARDOWN (rtsp_async) the service pointer is kept
stream_context_cleanup(w, rtsp_async) ==
    [w EXCEPT !.pool = buffer_ref_put(@, Cardinality(w.ctx.reorder_slots)),
              !.ctx.reorder_slots = {},
              !.ctx.fcc_sock = 0,
              !.ctx.rtsp_socket = IF rtsp_async THEN @ ELSE 0,
              !.ctx.mcast_sock = 0,
              !.env.mcast_joined = IF w.ctx.mcast_sock > 0 THEN @ - 1 ELSE @,
              !.ctx.service = IF rtsp_async THEN @ ELSE NoService]

\* What stream_context_cleanup returns: 1 when the RTSP session started an
\* asynchronous TEARDOWN, 0 when the cleanup is complete
stream_context_cleanup_ret(rtsp_async) == IF rtsp_async THEN 1 ELSE 0

\* connection_free works on w = [conn, pool, env, ctx], one block after the other
free_unregister_stream(w) ==
    IF w.conn.stream_registered
    THEN [w EXCEPT !.env.active_streams = @ - 1, !.conn.stream_registered = FALSE]
    ELSE w

free_stream(w, rtsp_async) ==
    IF w.conn.streaming THEN stream_context_cleanup(w, rtsp_async) ELSE w

free_queue(w, q) == [w EXCEPT !.conn = q.conn, !.pool = q.pool]

free_service(w) ==
    IF w.conn.service_owned /\ w.conn.service # NoService
    THEN [w EXCEPT !.conn.service = NoService, !.env.services_freed = @ + 1]
    ELSE w

\* The mutant of free_status: only a connection that streamed leaves the
\* status table
free_status_streaming_only(w) ==
    IF w.conn.status_index >= 0 /\ w.conn.state = CONN_STREAMING
    THEN [w EXCEPT !.env.total_clients = @ - 1]
    ELSE w

free_status(w) ==
    IF w.conn.status_index >= 0
    THEN [w EXCEPT !.env.total_clients = @ - 1]
    ELSE w

free_close(w) == [w EXCEPT !.conn.fd = -1]

\* The blocks of connection_free after the stream context was cleaned up
free_rest(w) ==
    free_close(free_status(free_service(
        free_queue(w, zerocopy_queue_cleanup(w.conn, w.pool)))))

\* connection_free: [conn, pool, env, ctx]; service_free is counted in
\* env.services_freed, status_unregister_client in env.total_clients
connection_free(conn, p, e, x, rtsp_async) ==
    free_rest(free_stream(free_unregister_stream(
                              [conn |-> conn, pool |-> p, env |-> e, ctx |-> x]),
                          rtsp_async))

\* The bytes handed to the socket, with adjacent pieces of one message joined
AppendWire(w, segs) ==
    LET RECURSIVE App(_, _)
        App(a, b) ==
            IF b = <<>> THEN a
            ELSE LET s == Head(b)
                 IN  IF a # <<>> /\ a[Len(a)].msg = s.msg /\ a[Len(a)].hi = s.lo
                     THEN App([a EXCEPT ![Len(a)].hi = s.hi], Tail(b))
                     ELSE App(Append(a, s), Tail(b))
    IN  App(w, segs)

(***************************************************************************)
(* C strings are sequences of one-character strings                        *)
(***************************************************************************)
\* strchr: the index of the first ch in s, 0 when s has none
strchr(s, ch) ==
    IF \E i \in 1..Len(s) : s[i] = ch
    THEN CHOOSE i \in 1..Len(s) : s[i] = ch /\ \A j \in 1..(i - 1) : s[j] # ch
    ELSE 0

\* strcasecmp: 0 when a and b are equal up to the case of ASCII letters
strcasecmp(a, b) ==
    LET Upper == <<"A", "B", "C", "D", "E", "F", "G", "H", "I", "J", "K", "L", "M",
                   "N", "O", "P", "Q", "R", "S", "T", "U", "V", "W", "X", "Y", "Z">>
        Lower == <<"a", "b", "c", "d", "e", "f", "g", "h", "i", "j", "k", "l", "m",
                   "n", "o", "p", "q", "r", "s", "t", "u", "v", "w", "x", "y", "z">>
        tolower(ch) == IF \E i \in 1..26 : Upper[i] = ch
                       THEN Lower[CHOOSE i \in 1..26 : Upper[i] = ch]
                       ELSE ch
    IN  IF Len(a) = Len(b) /\ \A i \in 1..Len(a) : tolower(a[i]) = tolower(b[i])
        THEN 0 ELSE 1

\* strncmp: 0 when a and b agree on their first n characters (a string that
\* ends earlier differs at its terminator)
strncmp(a, b, n) ==
    IF SubSeq(a, 1, Min(n, Len(a))) = SubSeq(b, 1, Min(n, Len(b))) THEN 0 ELSE 1

\* The character with code n: printable ASCII (the double quote, the
\* backslash and the backquote by name), every other code is one token
chr(n) ==
    LET Ascii == <<" ", "!", "<dq>", "#", "$", "%", "&", "'", "(", ")", "*", "+", ",",
                   "-", ".", "/", "0", "1", "2", "3", "4", "5", "6", "7", "8", "9",
                   ":", ";", "<", "=", ">", "?", "@", "A", "B", "C", "D", "E", "F",
                   "G", "H", "I", "J", "K", "L", "M", "N", "O", "P", "Q", "R", "S",
                   "T", "U", "V", "W", "X", "Y", "Z", "[", "<bs>", "]", "^", "_", "<bq>",
                   "a", "b", "c", "d", "e", "f", "g", "h", "i", "j", "k", "l", "m",
                   "n", "o", "p", "q", "r", "s", "t", "u", "v", "w", "x", "y", "z",
                   "{", "|", "}", "~">>
    IN  IF n >= 32 /\ n <= 126 THEN Ascii[n - 31] ELSE "<np>"

\* The value of a hexadecimal digit, -1 for any other character
HexValue(ch) ==
    LET Digits == <<"0", "1", "2", "3", "4", "5", "6", "7", "8", "9",
                    "a", "b", "c", "d", "e", "f">>
        Capitals == <<"A", "B", "C", "D", "E", "F">>
    IN  IF \E i \in 1..16 : Digits[i] = ch
        THEN (CHOOSE i \in 1..16 : Digits[i] = ch) - 1
        ELSE IF \E i \in 1..6 : Capitals[i] = ch
        THEN (CHOOSE i \in 1..6 : Capitals[i] = ch) + 9
        ELSE -1

\* http_url_decode on the rest s with acc decoded so far: [ret, str]; a '%'
\* that is not followed by two hexadecimal digits is an error
RECURSIVE url_decode_from(_, _)
url_decode_from(s, acc) ==
    IF s = <<>> THEN [ret |-> 0, str |-> acc]
    ELSE IF Head(s) # "%" THEN url_decode_from(Tail(s), Append(acc, Head(s)))
    ELSE IF Len(s) >= 3 /\ HexValue(s[2]) >= 0 /\ HexValue(s[3]) >= 0
    THEN url_decode_from(SubSeq(s, 4, Len(s)),
                         Append(acc, chr(16 * HexValue(s[2]) + HexValue(s[3]))))
    ELSE [ret |-> -1, str |-> acc]

http_url_decode(s) == url_decode_from(s, <<>>)

\* http_parse_query_param: the value of the first name=value pair of the
\* '&'-separated query whose name is the given one: [ret, value]
RECURSIVE http_parse_query_param(_, _)
http_parse_query_param(query, name) ==
    IF query = <<>> THEN [ret |-> -1, value |-> <<>>]
    ELSE LET amp == strchr(query, "&")
             param == IF amp = 0 THEN query ELSE SubSeq(query, 1, amp - 1)
         IN  IF strchr(param, "=") = Len(name) + 1 /\ SubSeq(param, 1, Len(name)) = name
             THEN [ret |-> 0, value |-> SubSeq(param, Len(name) + 2, Len(param))]
             ELSE IF amp = 0 THEN [ret |-> -1, value |-> <<>>]
             ELSE http_parse_query_param(SubSeq(query, amp + 1, Len(query)), name)

(***************************************************************************)
(* The calls of a handler work on a world w = [conn, pool, env, ctx, log,  *)
(* ret]: the connection, the pool, the process-wide state, the stream      *)
(* context, the calls to collaborators made so far and the return value.   *)
(***************************************************************************)
World(conn, p, e, x) ==
    [conn |-> conn, pool |-> p, env |-> e, ctx |-> x, log |-> <<>>, ret |-> 0]

Logged(w, ev, code) == [w EXCEPT !.log = Append(@, [ev |-> ev, code |-> code])]

Returned(w, ret) == [w EXCEPT !.ret = ret]

CONTENT_MP2T == "video/mp2t"
CONTENT_HTML == "text/html"
STATUS_200 == 200
ResponseLen == 100      \* bytes of a response head or of an error page

\* The world after connection_queue_output(_and_flush) returned st
OutputSent(w, st) == [w EXCEPT !.conn = st.conn, !.pool = st.pool, !.env = st.env]

\* send_http_headers: the status line and headers are queued on the connection
send_http_headers(w, status, ctype) ==
    Logged(OutputSent(w, connection_queue_output(w.conn, w.pool, w.env, status,
                                                 ResponseLen)),
           ctype, status)

\* http_send_400 ... http_send_503: the error page is queued and flushed and
\* the connection is marked for closing
http_send_error(w, status) ==
    [Logged(OutputSent(w, connection_queue_output_and_flush(w.conn, w.pool, w.env,
                                                            status, ResponseLen)),
            "error", status)
        EXCEPT !.conn.state = CONN_CLOSING]

http_send_400(w) == http_send_error(w, 400)
http_send_401(w) == http_send_error(w, 401)
http_send_404(w) == http_send_error(w, 404)
http_send_500(w) == http_send_error(w, 500)
http_send_503(w) == http_send_error(w, 503)

(***************************************************************************)
(* stream_context_t and its initialisation (stream.c)                      *)
(***************************************************************************)
FCC_STATE_INIT == "FCC_STATE_INIT"
FCC_STATE_REQUESTED == "FCC_STATE_REQUESTED"
FCC_STATE_UNICAST_PENDING == "FCC_STATE_UNICAST_PENDING"
FCC_STATE_UNICAST_ACTIVE == "FCC_STATE_UNICAST_ACTIVE"
FCC_STATE_MCAST_REQUESTED == "FCC_STATE_MCAST_REQUESTED"
FCC_STATE_MCAST_ACTIVE == "FCC_STATE_MCAST_ACTIVE"

SERVICE_MRTP == "SERVICE_MRTP"
SERVICE_RTSP == "SERVICE_RTSP"

\* A zeroed stream_context_t with fcc_session_init and rtsp_session_init applied
Ctx0 ==
    [service |-> NoService, status_index |-> 0,
     mcast_sock |-> 0, fcc_sock |-> 0, rtsp_socket |-> 0,
     fcc_state |-> FCC_STATE_INIT, fcc_unicast_start_time |-> 0, fcc_unicast_seq |-> -1,
     last_mcast_data_time |-> 0, last_fcc_data_time |-> 0, last_mcast_rejoin_time |-> 0,
     reorder_enabled |-> FALSE, reorder_expected_seqn |-> 0, reorder_first_packet |-> FALSE,
     reorder_waiting |-> FALSE, reorder_wait_start |-> 0, reorder_slots |-> {},
     snapshot_enabled |-> FALSE, snapshot_fallback_to_streaming |-> FALSE,
     snapshot_start_time |-> 0]

\* stream_join_mcast_group followed by the caller's ctx->mcast_sock = ...;
\* join is what join_mcast_group and epoll_ctl meet: "ok", "fail" (no socket)
\* or "epoll" (the socket cannot be registered and the process exits)
stream_join_mcast_group(w, join) ==
    IF join = "ok"
    THEN Logged([w EXCEPT !.ctx.mcast_sock = w.env.mcast_joined + 1,
                          !.ctx.last_mcast_data_time = w.env.now_ms,
                          !.ctx.last_mcast_rejoin_time = w.env.now_ms,
                          !.env.mcast_joined = @ + 1],
                "join_mcast_group", 1)
    ELSE IF join = "epoll"
    THEN Logged([w EXCEPT !.env.exited = TRUE], "exit", 1)
    ELSE Logged([w EXCEPT !.ctx.mcast_sock = -1], "join_mcast_group", -1)

\* fcc_session_set_state
fcc_session_set_state(w, state) == [w EXCEPT !.ctx.fcc_state = state]

\* fcc_initialize_and_request: the signalling socket is opened when there is
\* none and the unicast request is sent
fcc_initialize_and_request(w, ok) ==
    IF ok
    THEN Returned(Logged(fcc_session_set_state([w EXCEPT !.ctx.fcc_sock = 1],
                                               FCC_STATE_REQUESTED),
                         "fcc_request", 0), 0)
    ELSE Returned(w, -1)

\* stream_context_init_for_worker, lines 286-314: the zeroed context with its
\* back pointers, timestamps and reorder state
stream_context_reset(w, service) ==
    Logged([w EXCEPT !.ctx = [Ctx0 EXCEPT !.service = service,
                                 !.status_index = w.conn.status_index,
                                 !.last_mcast_data_time = w.env.now_ms,
                                 !.last_fcc_data_time = w.env.now_ms,
                                 !.last_mcast_rejoin_time = w.env.now_ms,
                                 !.reorder_enabled = TRUE,
                                 !.reorder_first_packet = TRUE]],
           "stream_context_init", 0)

\* The mutant of stream_init_snapshot: every snapshot may fall back
stream_init_snapshot_always_fallback(w, is_snapshot) ==
    IF is_snapshot = 0 THEN w
    ELSE [w EXCEPT !.ctx.snapshot_enabled = TRUE,
                   !.ctx.snapshot_start_time = w.env.now_ms,
                   !.ctx.snapshot_fallback_to_streaming = TRUE]

\* lines 317-328, snapshot_init having succeeded
stream_init_snapshot(w, is_snapshot) ==
    IF is_snapshot = 0 THEN w
    ELSE [w EXCEPT !.ctx.snapshot_enabled = TRUE,
                   !.ctx.snapshot_start_time = w.env.now_ms,
                   !.ctx.snapshot_fallback_to_streaming = (is_snapshot = 2)]

\* lines 330-377: the media path by service type
stream_init_media(w, service, upstream) ==
    IF service.service_type = SERVICE_RTSP
    THEN IF ~service.rtsp_url \/ upstream # "ok"
         THEN Returned(w, -1)
         ELSE Returned(Logged([w EXCEPT !.ctx.rtsp_socket = 1], "rtsp_connect", 0), 0)
    ELSE IF service.fcc_addr
    THEN fcc_initialize_and_request(w, upstream = "ok")
    ELSE Returned(fcc_session_set_state(stream_join_mcast_group(w, upstream),
                                        FCC_STATE_MCAST_ACTIVE), 0)

\* stream_context_init_for_worker: ret 0 or -1
stream_context_init_for_worker(w, service, is_snapshot, ext) ==
    IF service = NoService THEN Returned(w, -1)
    ELSE IF is_snapshot # 0 /\ ~ext.alloc_ok
    THEN Returned(stream_context_reset(w, service), -1)
    ELSE stream_init_media(stream_init_snapshot(stream_context_reset(w, service),
                                                is_snapshot),
                           service, ext.upstream)

(***************************************************************************)
(* connection_route_and_start (connection.c), from its last block to its   *)
(* first                                                                   *)
(***************************************************************************)
\* service_free of the copy the route function holds, if it owns one
route_service_free(w, owned) ==
    IF owned
    THEN Logged([w EXCEPT !.env.services_freed = @ + 1], "service_free", 0)
    ELSE w

\* zerocopy_register_stream_client, once per connection and not for snapshots
route_register_stream(w, is_snapshot) ==
    IF is_snapshot = 0 /\ ~w.conn.stream_registered
    THEN Logged([w EXCEPT !.env.active_streams = @ + 1, !.conn.stream_registered = TRUE],
                "zerocopy_register_stream_client", 0)
    ELSE w

\* The mutant of route_stream_started: after a failed initialisation the freed
\* copy stays in c->service
route_stream_started_keeps_pointer(w, service, owned, is_snapshot) ==
    IF w.env.exited THEN w
    ELSE IF w.ret = 0
    THEN [route_register_stream(w, is_snapshot) EXCEPT
              !.conn.streaming = TRUE, !.conn.service = service,
              !.conn.service_owned = owned, !.conn.state = CONN_STREAMING,
              !.conn.buffer_class = CONNECTION_BUFFER_MEDIA, !.ret = 0]
    ELSE [route_service_free(w, owned) EXCEPT
              !.conn.service = service, !.conn.service_owned = owned,
              !.conn.state = CONN_CLOSING, !.ret = -1]

\* lines 834-855: w is the world stream_context_init_for_worker left
route_stream_started(w, service, owned, is_snapshot) ==
    IF w.env.exited THEN w
    ELSE IF w.ret = 0
    THEN [route_register_stream(w, is_snapshot) EXCEPT
              !.conn.streaming = TRUE, !.conn.service = service,
              !.conn.service_owned = owned, !.conn.state = CONN_STREAMING,
              !.conn.buffer_class = CONNECTION_BUFFER_MEDIA, !.ret = 0]
    ELSE [route_service_free(w, owned) EXCEPT !.conn.state = CONN_CLOSING, !.ret = -1]

\* status_register_client: a slot of the status table and the client count
status_register_client(w, ok) ==
    IF ok
    THEN Logged([w EXCEPT !.conn.status_index = 0, !.env.total_clients = @ + 1],
                "status_register_client", 0)
    ELSE Logged([w EXCEPT !.conn.status_index = -1], "status_register_client", -1)

\* lines 787-827
route_register_status(w, ok) ==
    IF w.conn.client_addr_len > 0
    THEN status_register_client(w, ok)
    ELSE [w EXCEPT !.conn.status_index = -1]

\* lines 829-831
route_send_headers(w, is_snapshot) ==
    IF is_snapshot = 0 THEN send_http_headers(w, STATUS_200, CONTENT_MP2T) ELSE w

\* lines 750-785: 0 no snapshot, 1 by query snapshot=1, 2 by header
snapshot_query == <<"s", "n", "a", "p", "s", "h", "o", "t">>

is_snapshot_request(req, video_snapshot) ==
    IF ~video_snapshot THEN 0
    ELSE IF req.x_request_snapshot THEN 2
    ELSE IF \E i \in 1..Len(req.accept) : req.accept[i] = "image/jpeg" THEN 2
    ELSE IF strchr(req.url, "?") # 0
            /\ http_parse_query_param(SubSeq(req.url, strchr(req.url, "?") + 1,
                                             Len(req.url)),
                                      snapshot_query)
                 = [ret |-> 0, value |-> <<"1">>]
    THEN 1
    ELSE 0

\* lines 787-855 for a request that passed the capacity check
route_stream(w, service, owned, is_snapshot, ext) ==
    route_stream_started(
        stream_context_init_for_worker(
            route_send_headers(route_register_status(w, ext.register_ok), is_snapshot),
            service, is_snapshot, ext),
        service, owned, is_snapshot)

\* A variant of the capacity check that keeps the service copy on a 503
route_capacity_keep_service(w, service, owned, ext) ==
    IF w.env.status_shared /\ w.env.total_clients >= w.env.config.maxclients
    THEN http_send_503(w)
    ELSE route_stream(w, service, owned,
                      is_snapshot_request(w.conn.http_req, w.env.config.video_snapshot),
                      ext)

\* line 742: the condition of the capacity check
route_capacity_reached(w) ==
    w.env.status_shared /\ w.env.total_clients >= w.env.config.maxclients

\* lines 741-748: the capacity check
route_capacity(w, service, owned, ext) ==
    IF w.env.status_shared /\ w.env.total_clients >= w.env.config.maxclients
    THEN route_service_free(http_send_503(w), owned)
    ELSE route_stream(w, service, owned,
                      is_snapshot_request(w.conn.http_req, w.env.config.video_snapshot),
                      ext)

\* lines 736-739: the copy takes the request's User-Agent
route_user_agent(service, owned, req) ==
    IF owned /\ req.user_agent # <<>>
    THEN [service EXCEPT !.user_agent = req.user_agent]
    ELSE service


HEAD == <<"H", "E", "A", "D">>

\* connection_epoll_update_events(..., EPOLLIN | EPOLLOUT | ...) on the world
EpollOut(w) == [w EXCEPT !.conn = connection_epoll_update_events(w.conn, TRUE)]

Closing(w) == [w EXCEPT !.conn.state = CONN_CLOSING]

\* lines 727-733: the answer to a HEAD request
route_head_reply(w, owned) ==
    Closing(route_service_free(EpollOut(send_http_headers(w, STATUS_200, CONTENT_MP2T)),
                               owned))

\* A variant that answers HEAD only when the capacity check would pass
route_head_after_capacity(w, service, owned, ext) ==
    IF strcasecmp(w.conn.http_req.method, HEAD) = 0
       /\ ~(w.env.status_shared /\ w.env.total_clients >= w.env.config.maxclients)
    THEN route_head_reply(w, owned)
    ELSE route_capacity(w, route_user_agent(service, owned, w.conn.http_req), owned, ext)

\* lines 724-748: HEAD is answered before the capacity check
route_head(w, service, owned, ext) ==
    IF strcasecmp(w.conn.http_req.method, HEAD) = 0
    THEN route_head_reply(w, owned)
    ELSE route_capacity(w, route_user_agent(service, owned, w.conn.http_req), owned, ext)

\* A service_t the route function allocated: the copy is counted
ServiceMade(w) == Logged([w EXCEPT !.env.services_made = @ + 1], "service_new", 0)

\* service_create_from_udpxy_url: /rtp/... and /udp/... name a multicast service
udpxy_rtp == <<"/", "r", "t", "p", "/">>
udpxy_udp == <<"/", "u", "d", "p", "/">>

service_create_from_udpxy_url(url) ==
    IF strncmp(url, udpxy_rtp, 5) = 0 \/ strncmp(url, udpxy_udp, 5) = 0
    THEN [NoService EXCEPT !.kind = "udpxy", !.url = url, !.service_type = SERVICE_MRTP]
    ELSE NoService

\* service_create_with_query_merge: a new service when the request URL has
\* query parameters and the allocation succeeds, NULL otherwise
service_create_with_query_merge(service, url, merge_ok) ==
    IF strchr(url, "?") # 0 /\ merge_ok
    THEN [service EXCEPT !.kind = "merged"]
    ELSE NoService

\* service_clone
service_clone(service, ok) ==
    IF ok THEN [service EXCEPT !.kind = "clone"] ELSE NoService

\* lines 678-682: the configured service whose url is the decoded path
RECURSIVE service_lookup(_, _)
service_lookup(services, decoded_path) ==
    IF services = <<>> THEN NoService
    ELSE IF Head(services).url = decoded_path THEN Head(services)
    ELSE service_lookup(Tail(services), decoded_path)

\* lines 695-716: a configured service was found
route_configured(w, found, ext) ==
    IF service_create_with_query_merge(found, w.conn.http_req.url, ext.merge_ok) # NoService
    THEN route_head(ServiceMade(w),
                    service_create_with_query_merge(found, w.conn.http_req.url,
                                                    ext.merge_ok),
                    TRUE, ext)
    ELSE IF service_clone(found, ext.alloc_ok) = NoService
    THEN http_send_500(w)
    ELSE route_head(ServiceMade(w), service_clone(found, ext.alloc_ok), TRUE, ext)

\* lines 684-722: the service of the request, or 404
route_service(w, found, ext) ==
    IF found # NoService
    THEN route_configured(w, found, ext)
    ELSE IF w.env.config.udpxy
            /\ service_create_from_udpxy_url(w.conn.http_req.url) # NoService
    THEN route_head(ServiceMade(w), service_create_from_udpxy_url(w.conn.http_req.url),
                    TRUE, ext)
    ELSE http_send_404(w)

\* lines 654-682: the path (without query and trailing slash) is bounded,
\* decoded and looked up
route_decode(w, path, ext) ==
    IF Len(path) >= HTTP_URL_BUFFER_SIZE
    THEN http_send_400(w)
    ELSE IF http_url_decode(path).ret # 0
    THEN http_send_400(w)
    ELSE route_service(w, service_lookup(w.env.services, http_url_decode(path).str), ext)

\* The collaborators of the reserved paths (status.c): the call is recorded
\* and an answer is queued
handle_status_page(w) ==
    send_http_headers(Logged(w, "handle_status_page", 0), STATUS_200, CONTENT_HTML)

handle_disconnect_client(w) ==
    send_http_headers(Logged(w, "handle_disconnect_client", 0), STATUS_200, CONTENT_HTML)

handle_set_log_level(w) ==
    send_http_headers(Logged(w, "handle_set_log_level", 0), STATUS_200, CONTENT_HTML)

status_handle_sse_init(w) ==
    Returned(send_http_headers(Logged([w EXCEPT !.conn.sse_active = TRUE],
                                      "status_handle_sse_init", 0),
                               STATUS_200, CONTENT_HTML), 0)

\* lines 948-952: the playlist follows its headers
playlist_body(w, playlist_len) ==
    OutputSent(w, connection_queue_output_and_flush(w.conn, w.pool, w.env,
                                                    STATUS_200 + 1, playlist_len))

\* handle_playlist_request; playlist_len is 0 when there is no playlist
handle_playlist_request(w, playlist_len) ==
    IF playlist_len = 0
    THEN http_send_404(Logged(w, "handle_playlist_request", 0))
    ELSE playlist_body(send_http_headers(Logged(w, "handle_playlist_request",
                                                playlist_len),
                                         STATUS_200, CONTENT_HTML),
                       playlist_len)

api_disconnect == <<"d", "i", "s", "c", "o", "n", "n", "e", "c", "t">>
api_log_level == <<"l", "o", "g", "-", "l", "e", "v", "e", "l">>

\* lines 633-651: the control API named after the prefix
route_api(w, api_name) ==
    IF Len(api_name) = Len(api_disconnect)
       /\ strncmp(api_name, api_disconnect, Len(api_name)) = 0
    THEN Closing(handle_disconnect_client(w))
    ELSE IF Len(api_name) = Len(api_log_level)
            /\ strncmp(api_name, api_log_level, Len(api_name)) = 0
    THEN Closing(handle_set_log_level(w))
    ELSE Closing(http_send_404(w))

\* lines 589-605: the routes derived from the status route
status_sse_route(status_route) ==
    IF Len(status_route) > 0 THEN status_route \o <<"/", "s", "s", "e">>
    ELSE <<"s", "s", "e">>

status_api_prefix(status_route) ==
    IF Len(status_route) > 0 THEN status_route \o <<"/", "a", "p", "i", "/">>
    ELSE <<"a", "p", "i", "/">>

playlist_route == <<"p", "l", "a", "y", "l", "i", "s", "t", ".", "m", "3", "u">>

\* lines 607-652: the reserved paths in their order, then the services;
\* path is service_path cut at path_len
route_reserved(w, path, status_route, ext) ==
    IF Len(status_route) = Len(path) /\ strncmp(path, status_route, Len(path)) = 0
    THEN Closing(handle_status_page(w))
    ELSE IF Len(playlist_route) = Len(path)
            /\ strncmp(path, playlist_route, Len(path)) = 0
    THEN Closing(handle_playlist_request(w, ext.playlist_len))
    ELSE IF Len(status_sse_route(status_route)) = Len(path)
            /\ strncmp(path, status_sse_route(status_route), Len(path)) = 0
    THEN status_handle_sse_init(w)
    ELSE IF Len(path) >= Len(status_api_prefix(status_route))
            /\ strncmp(path, status_api_prefix(status_route),
                       Len(status_api_prefix(status_route))) = 0
    THEN route_api(w, SubSeq(path, Len(status_api_prefix(status_route)) + 1, Len(path)))
    ELSE route_decode(w, path, ext)

\* lines 544-546 and 585-587: path_len, the length of service_path up to the
\* query, less one trailing slash
path_len(service_path) ==
    LET len == IF strchr(service_path, "?") # 0 THEN strchr(service_path, "?") - 1
               ELSE Len(service_path)
    IN  IF len > 0 /\ service_path[len] = "/" THEN len - 1 ELSE len

r2h_token_param == <<"r", "2", "h", "-", "t", "o", "k", "e", "n">>

\* The query string of service_path: what follows the first '?'
QueryOf(service_path) ==
    SubSeq(service_path, strchr(service_path, "?") + 1, Len(service_path))

\* A variant of the token check that compares the value without decoding it
token_accepted_raw(service_path, r2h_token) ==
    /\ strchr(service_path, "?") # 0
    /\ http_parse_query_param(QueryOf(service_path), r2h_token_param)
         = [ret |-> 0, value |-> r2h_token]

\* lines 551-580: the query carries r2h-token, its value decodes and equals
\* the configured token
token_accepted(service_path, r2h_token) ==
    /\ strchr(service_path, "?") # 0
    /\ http_parse_query_param(QueryOf(service_path), r2h_token_param).ret = 0
    /\ http_url_decode(http_parse_query_param(QueryOf(service_path),
                                              r2h_token_param).value)
         = [ret |-> 0, str |-> r2h_token]

\* lines 548-587: the token check, then the reserved paths
route_token(w, service_path, ext) ==
    IF w.env.config.r2h_token # <<>>
       /\ ~token_accepted(service_path, w.env.config.r2h_token)
    THEN http_send_401(w)
    ELSE route_reserved(w, SubSeq(service_path, 1, path_len(service_path)),
                        w.env.config.status_page_route, ext)

\* lines 515-530: the Host header up to its port, in a buffer of 256
host_without_port(hostname) ==
    SubSeq(hostname, 1,
           Min(255, IF strchr(hostname, ":") # 0 THEN strchr(hostname, ":") - 1
                    ELSE Len(hostname)))

\* A variant of the Host check that compares the header with its port
host_accepted_with_port(hostname, configured) ==
    hostname # <<>> /\ strcasecmp(hostname, configured) = 0

\* lines 506-538: the Host header is present and names the configured host
host_accepted(hostname, configured) ==
    hostname # <<>> /\ strcasecmp(host_without_port(hostname), configured) = 0

\* connection_route_and_start
connection_route_and_start(w, ext) ==
    IF w.conn.http_req.url = <<>> \/ Head(w.conn.http_req.url) # "/"
    THEN http_send_400(w)
    ELSE IF w.env.config.hostname # <<>>
            /\ ~host_accepted(w.conn.http_req.hostname, w.env.config.hostname)
    THEN http_send_400(w)
    ELSE route_token(w, Tail(w.conn.http_req.url), ext)

(***************************************************************************)
(* connection_handle_read                                                  *)
(***************************************************************************)
INBUF_SIZE == 8192

\* lines 468-486: parse is what http_parse_request answers for the buffer: 1
\* with the parsed request req, 0 or -1
handle_read_parse(w, parse, req, ext) ==
    IF w.conn.state # CONN_READ_REQ_LINE /\ w.conn.state # CONN_READ_HEADERS
    THEN w
    ELSE IF parse = 1
    THEN Logged(connection_route_and_start(
                    [w EXCEPT !.conn.state = CONN_ROUTE, !.conn.http_req = req,
                              !.conn.in_len = 0], ext),
                "routed", 0)
    ELSE IF parse < 0
    THEN Closing(w)
    ELSE w

\* connection_handle_read; r is what read() returns: a byte count, 0 at end of
\* file, -1 for EAGAIN and -2 for any other error
connection_handle_read(w, r, parse, req, ext) ==
    IF w.conn.in_len >= INBUF_SIZE
    THEN handle_read_parse(w, parse, req, ext)
    ELSE IF r > 0
    THEN handle_read_parse([w EXCEPT !.conn.in_len = @ + Min(r, INBUF_SIZE - @)],
                           parse, req, ext)
    ELSE IF r = -1
    THEN w
    ELSE Closing(w)

(***************************************************************************)
(* Bounds of the model                                                     *)
(***************************************************************************)
MaxMsgs == 2            \* enqueue calls in a run of the queue specification
MaxStreams == 1         \* other streaming clients that may register
MaxClients == 2         \* config.maxclients

PartialStep == 1000      \* bytes a partial send accepts
OtherChunk == 64        \* buffers other connections take or return at a time

\* Payload sizes offered to connection_queue_zerocopy: empty, a typical RTP
\* payload, a full buffer
PacketSizes == {0, 1316, BUFFER_POOL_BUFFER_SIZE}
\* Lengths offered to connection_queue_output: nothing, less than a buffer,
\* four full buffers
OutputLens == {0, 100, 4 * BUFFER_POOL_BUFFER_SIZE}
\* Hard cap of the pool for which the queue limit is 4 buffers
QueuePoolCaps == {CONN_QUEUE_MIN_BUFFERS + 4}

NoCall == [op |-> "none", ret |-> 0, size |-> 0, status |-> "none"]

\* The configuration: no Host or token check, a cap of MaxClients clients
Config0 ==
    [hostname |-> <<>>, r2h_token |-> <<>>, maxclients |-> MaxClients, udpxy |-> FALSE,
     video_snapshot |-> FALSE, status_page_route |-> <<"s", "t", "a", "t", "u", "s">>,
     mcast_rejoin_interval |-> 0]

\* The configured services: a plain multicast channel, one with an FCC server,
\* one served over RTSP
ConfiguredServices ==
    << [NoService EXCEPT !.kind = "configured", !.url = <<"c", "h", "1">>,
                         !.service_type = SERVICE_MRTP],
       [NoService EXCEPT !.kind = "configured", !.url = <<"f", "c", "c">>,
                         !.service_type = SERVICE_MRTP, !.fcc_addr = TRUE],
       [NoService EXCEPT !.kind = "configured", !.url = <<"r", "t", "s", "p">>,
                         !.service_type = SERVICE_RTSP, !.rtsp_url = TRUE] >>

Env0 ==
    [now_ms |-> 1, active_streams |-> 1, total_clients |-> 1,
     services_made |-> 1, services_freed |-> 0, mcast_joined |-> 0,
     exited |-> FALSE, status_shared |-> TRUE, config |-> Config0,
     services |-> ConfiguredServices,
     slot_queue |-> [queue_bytes |-> 0, queue_buffers |-> 0, queue_limit_bytes |-> 0,
                     queue_bytes_highwater |-> 0, dropped_packets |-> 0,
                     slow_active |-> FALSE]]

Obs0 == [enq |-> <<>>, wire |-> <<>>, last |-> NoCall, nmsg |-> 0, log |-> TRUE,
         calls |-> <<>>,
         writes |-> 0, since |-> -1, since15 |-> -1, was_slow |-> FALSE,
         fwd |-> <<>>, last_pkt |-> 0, args |-> <<>>,
         last_fcc |-> 0, teardown |-> FALSE, workers |-> <<>>]

\* A connection that has been routed to a stream: connection_route_and_start's
\* success branch applied to a fresh connection
StreamingConnection(zc) ==
    [connection_create(zc, TRUE) EXCEPT
        !.state = CONN_STREAMING, !.streaming = TRUE, !.status_index = 0,
        !.service = [NoService EXCEPT !.kind = "clone"], !.service_owned = TRUE,
        !.stream_registered = TRUE,
        !.buffer_class = CONNECTION_BUFFER_MEDIA]

InitQueue ==
    /\ c = StreamingConnection(TRUE)
    /\ \E cap \in QueuePoolCaps :
          pool = [num_buffers |-> CONN_QUEUE_MIN_BUFFERS, num_free |-> CONN_QUEUE_MIN_BUFFERS,
                  max_buffers |-> cap, low_watermark |-> 16, others |-> 0]
    /\ env = Env0
    /\ ctx = Ctx0
    /\ obs = Obs0

\* The worker frees a connection as soon as a write reports CLOSED
Alive == c.fd >= 0 /\ obs.last.status # CONNECTION_WRITE_CLOSED

Called(op, ret, size, status) == [op |-> op, ret |-> ret, size |-> size, status |-> status]

\* connection_queue_zerocopy returned r for the packet buf; p is the pool
\* after the caller took the buffer, and the caller drops its reference last
PacketQueued(buf, p, r) ==
    /\ c' = r.conn
    /\ env' = r.env
    /\ pool' = IF r.ret = 0 /\ ItemBytes(buf) > 0 THEN p ELSE buffer_ref_put(p, 1)
    /\ obs' = [obs EXCEPT !.nmsg = @ + 1,
                  !.enq = IF r.ret = 0 /\ ItemBytes(buf) > 0 /\ obs.log
                          THEN Append(@, buf) ELSE @,
                  !.last = Called("queue_zerocopy", r.ret, ItemBytes(buf), "none")]

\* The pool answered a to the caller's allocation for the packet buf
PacketAllocated(buf, a) ==
    IF ~a.ok
    THEN /\ obs' = [obs EXCEPT !.nmsg = @ + 1,
                       !.last = Called("no_buffer", -1, ItemBytes(buf), "none")]
         /\ UNCHANGED <<c, pool, env>>
    ELSE PacketQueued(buf, a.pool, connection_queue_zerocopy(c, a.pool, env, buf))

\* An upstream packet of the given size is handed to connection_queue_zerocopy
\* in a buffer of its own
EnqueuePacket(size, max_calls) ==
    /\ Alive
    /\ obs.nmsg < max_calls
    /\ PacketAllocated([msg |-> obs.nmsg + 1, lo |-> 0, hi |-> size],
                       buffer_pool_alloc(pool))
    /\ UNCHANGED ctx

QueueZerocopy(size) == EnqueuePacket(size, MaxMsgs)

\* connection_queue_output returned r for a message of len bytes
OutputQueued(len, r) ==
    /\ c' = r.conn
    /\ pool' = r.pool
    /\ env' = r.env
    /\ obs' = [obs EXCEPT !.nmsg = @ + 1,
                  !.enq = @ \o r.queued,
                  !.last = Called("queue_output", r.ret, len, "none")]

\* connection_queue_output with len bytes of a fresh message
QueueOutput(len) ==
    /\ Alive
    /\ obs.nmsg < MaxMsgs
    /\ OutputQueued(len, connection_queue_output(c, pool, env, obs.nmsg + 1, len))
    /\ UNCHANGED ctx

\* The amounts a send may accept: a part of the head item, the whole batch
SendAmounts(q) ==
    {n \in {PartialStep, BatchBytes(q)} : n >= 1 /\ n <= BatchBytes(q)}

SendOutcomes(conn) ==
    IF conn.zc_queue = <<>>
    THEN {[kind |-> "block"]}
    ELSE {[kind |-> "fatal"], [kind |-> "block"]}
         \cup {[kind |-> "sent", n |-> n, zc |-> FALSE] : n \in SendAmounts(conn.zc_queue)}
         \cup (IF conn.zerocopy_enabled
               THEN {[kind |-> "sent", n |-> BatchBytes(conn.zc_queue), zc |-> TRUE]}
               ELSE {})

\* What zerocopy_send returned to connection_handle_write: -1 for a fatal
\* error, -2 when the socket would block, 0 otherwise and when it was not called
SendReturn(conn, out) ==
    IF conn.zc_queue = <<>> THEN 0
    ELSE IF out.kind = "fatal" THEN -1
    ELSE IF out.kind = "block" THEN -2
    ELSE 0

\* connection_handle_write returned r after zerocopy_send returned ret
Written(r, ret, counted) ==
    /\ c' = r.conn
    /\ pool' = r.pool
    /\ env' = r.env
    /\ obs' = [obs EXCEPT !.wire = IF obs.log THEN AppendWire(@, r.segs) ELSE @,
                  !.writes = IF counted THEN @ + 1 ELSE @,
                  !.last = Called("handle_write", ret, 0, r.status)]

\* A writable event on the client socket meeting outcome out
WriteEvent(out, counted) ==
    /\ Alive
    /\ Written(connection_handle_write(c, pool, env, out), SendReturn(c, out), counted)
    /\ UNCHANGED ctx

HandleWrite == \E out \in SendOutcomes(c) : WriteEvent(out, FALSE)

Completed(r) == c' = r.conn /\ pool' = r.pool

\* A zero-copy completion notification arrives
Completion ==
    /\ Alive
    /\ c.zc_pending # <<>>
    /\ Completed(zerocopy_handle_completions(c, pool))
    /\ UNCHANGED <<env, ctx, obs>>

Freed(r) == c' = r.conn /\ pool' = r.pool /\ env' = r.env /\ ctx' = r.ctx

\* The worker closes and frees the connection after a write reported CLOSED
CloseAndFree ==
    /\ c.fd >= 0
    /\ obs.last.status = CONNECTION_WRITE_CLOSED
    /\ \E rtsp_async \in (IF ctx.rtsp_socket > 0 THEN BOOLEAN ELSE {FALSE}) :
          Freed(connection_free(c, pool, env, ctx, rtsp_async))
    /\ UNCHANGED obs

\* n successive allocations by other connections: the pool afterwards, or
\* ok = FALSE when one of them fails
RECURSIVE AllocN(_, _)
AllocN(p, n) ==
    IF n = 0 THEN [ok |-> TRUE, pool |-> p]
    ELSE IF buffer_pool_alloc(p).ok
         THEN AllocN(buffer_pool_alloc(p).pool, n - 1)
         ELSE [ok |-> FALSE, pool |-> p]

\* Other connections take or return pool buffers, OtherChunk at a time
PoolOther ==
    /\ \/ /\ AllocN(pool, OtherChunk).ok
          /\ pool' = [AllocN(pool, OtherChunk).pool EXCEPT !.others = @ + OtherChunk]
       \/ /\ pool.others >= OtherChunk
          /\ pool' = [buffer_ref_put(pool, OtherChunk) EXCEPT !.others = @ - OtherChunk]
    /\ UNCHANGED <<c, env, ctx, obs>>

\* Other streaming clients register or unregister
StreamsChange ==
    /\ \E k \in 1..(1 + MaxStreams) :
          k # env.active_streams /\ env' = [env EXCEPT !.active_streams = k]
    /\ UNCHANGED <<c, pool, ctx, obs>>

NextQueue ==
    \/ \E size \in PacketSizes : QueueZerocopy(size)
    \/ \E len \in OutputLens : QueueOutput(len)
    \/ HandleWrite
    \/ Completion
    \/ CloseAndFree
    \/ PoolOther

SpecQueue == InitQueue /\ [][NextQueue]_vars

(***************************************************************************)
(* The backpressure specification: one streaming client on a pool limited  *)
(* to CONN_QUEUE_MIN_BUFFERS buffers, full-size packets arriving faster    *)
(* than the client drains, the pool and the set of streaming clients       *)
(* changing in between.                                                    *)
(***************************************************************************)
MaxLimitCalls == 66     \* enqueue calls in a run of the backpressure specification
MaxDrains == 1          \* write events that drain the queue in such a run
MaxLimitNow == 3001     \* the clock stops advancing here

InitLimit ==
    /\ c = StreamingConnection(FALSE)
    /\ pool = [num_buffers |-> CONN_QUEUE_MIN_BUFFERS, num_free |-> CONN_QUEUE_MIN_BUFFERS,
               max_buffers |-> CONN_QUEUE_MIN_BUFFERS, low_watermark |-> 16,
               others |-> 0]
    /\ env = Env0
    /\ ctx = Ctx0
    /\ obs = [Obs0 EXCEPT !.log = FALSE]

BurstPacket == EnqueuePacket(BUFFER_POOL_BUFFER_SIZE, MaxLimitCalls)

\* The client drains everything one send can take
Drain ==
    /\ c.zc_queue # <<>>
    /\ obs.writes < MaxDrains
    /\ WriteEvent([kind |-> "sent", n |-> BatchBytes(c.zc_queue), zc |-> FALSE], TRUE)

\* The client socket is not writable
Blocked ==
    /\ c.zc_queue # <<>>
    /\ WriteEvent([kind |-> "block"], FALSE)

DebounceElapses ==
    /\ env.now_ms + CONN_QUEUE_SLOW_DEBOUNCE_MS <= MaxLimitNow
    /\ env' = [env EXCEPT !.now_ms = @ + CONN_QUEUE_SLOW_DEBOUNCE_MS]
    /\ UNCHANGED <<c, pool, ctx, obs>>

NextLimit ==
    \/ BurstPacket
    \/ Drain
    \/ Blocked
    \/ StreamsChange
    \/ DebounceElapses

SpecLimit == InitLimit /\ [][NextLimit]_vars

(***************************************************************************)
(* The request specification: one connection reads a request, routes it,   *)
(* and its answer is written and the connection freed.                     *)
(***************************************************************************)
ReadChunk == 4096       \* bytes one read returns
PlaylistLen == 5000      \* bytes of the transformed playlist

tv == <<"t", "v">>
abc == <<"a", "b", "c">>

\* config.hostname, config.r2h_token and config.udpxy vary; snapshots are
\* enabled in one more configuration
RouteConfigs ==
    {[Config0 EXCEPT !.hostname = h, !.r2h_token = t, !.udpxy = u] :
        h \in {<<>>, tv}, t \in {<<>>, abc}, u \in BOOLEAN}
    \cup {[Config0 EXCEPT !.video_snapshot = TRUE]}

\* A path of HTTP_URL_BUFFER_SIZE characters
LongPath == [i \in 1..HTTP_URL_BUFFER_SIZE |-> "a"]

\* The reserved paths, the configured services with and without a trailing
\* slash or an escape, an undecodable path, unknown paths, a udpxy path
RoutePaths ==
    {<<"s", "t", "a", "t", "u", "s">>,
     <<"p", "l", "a", "y", "l", "i", "s", "t", ".", "m", "3", "u">>,
     <<"s", "t", "a", "t", "u", "s", "/", "s", "s", "e">>,
     <<"s", "t", "a", "t", "u", "s", "/", "a", "p", "i", "/",
       "d", "i", "s", "c", "o", "n", "n", "e", "c", "t">>,
     <<"s", "t", "a", "t", "u", "s", "/", "a", "p", "i", "/",
       "l", "o", "g", "-", "l", "e", "v", "e", "l">>,
     <<"s", "t", "a", "t", "u", "s", "/", "a", "p", "i", "/", "x">>,
     <<"c", "h", "1">>, <<"c", "h", "1", "/">>, <<"c", "h", "%", "3", "1">>,
     <<"c", "h", "%", "3">>, <<"n", "o", "p", "e">>, <<"r", "t", "p", "/", "1">>,
     <<"f", "c", "c">>, <<"r", "t", "s", "p">>, LongPath}

TokenQuery == <<"?", "r", "2", "h", "-", "t", "o", "k", "e", "n", "=", "a", "b", "c">>

\* No query, other parameters only, the token plain, escaped, in the wrong
\* case, badly escaped, and after another parameter
RouteQueries ==
    {<<>>, <<"?", "o", "t", "h", "e", "r", "=", "1">>, TokenQuery,
     <<"?", "r", "2", "h", "-", "t", "o", "k", "e", "n", "=", "a", "b", "%", "6", "3">>,
     <<"?", "r", "2", "h", "-", "t", "o", "k", "e", "n", "=", "a", "b", "C">>,
     <<"?", "r", "2", "h", "-", "t", "o", "k", "e", "n", "=", "a", "b", "%", "6">>,
     <<"?", "x", "=", "1", "&", "r", "2", "h", "-", "t", "o", "k", "e", "n", "=",
       "a", "b", "c">>}

\* Every path without a query and with the token, the channel and the status
\* page with every query, and a URL without its leading slash
RouteUrls ==
    {<<"/">> \o p \o q : p \in RoutePaths, q \in {<<>>, TokenQuery}}
    \cup {<<"/">> \o p \o q : p \in {<<"c", "h", "1">>, <<"s", "t", "a", "t", "u", "s">>},
                              q \in RouteQueries}
    \cup {<<"c", "h", "1">>}

\* No Host header, the configured host in another case and with a port,
\* another host
RouteHosts == {<<>>, <<"T", "V", ":", "8">>, <<"t", "v", "x">>}

RouteMethods == {<<"G", "E", "T">>, <<"H", "e", "a", "d">>}

\* The three ways of asking for a snapshot of the channel
SnapshotRequests ==
    {[NoRequest EXCEPT !.method = <<"G", "E", "T">>, !.url = <<"/", "c", "h", "1">>,
                       !.x_request_snapshot = TRUE],
     [NoRequest EXCEPT !.method = <<"G", "E", "T">>, !.url = <<"/", "c", "h", "1">>,
                       !.accept = <<"text/html", "image/jpeg">>],
     [NoRequest EXCEPT !.method = <<"G", "E", "T">>,
                       !.url = <<"/", "c", "h", "1", "?", "s", "n", "a", "p", "s", "h",
                                 "o", "t", "=", "1">>]}

\* The requests http_parse_request may deliver under the configuration cfg.
\* Without a configured host there is no Host header; with one, every URL
\* comes with the accepted header and four URLs come with the other two.
\* Snapshots are asked for when they are enabled.
RouteRequests(cfg) ==
    {[NoRequest EXCEPT !.method = m, !.url = u, !.user_agent = <<"v">>,
                       !.hostname = IF cfg.hostname = <<>> THEN <<>>
                                    ELSE <<"T", "V", ":", "8">>] :
        m \in RouteMethods, u \in RouteUrls}
    \cup (IF cfg.hostname = <<>> THEN {}
          ELSE {[NoRequest EXCEPT !.method = m, !.url = u, !.hostname = h] :
                   m \in RouteMethods, h \in RouteHosts,
                   u \in {<<"c", "h", "1">>, <<"/", "c", "h", "1">>,
                          <<"/", "c", "h", "1">> \o TokenQuery,
                          <<"/", "s", "t", "a", "t", "u", "s">>}})
    \cup (IF cfg.video_snapshot THEN SnapshotRequests ELSE {})

\* What the collaborators of the route function meet
\* no failure, each single failure, and two pairs of failures
Ext0 ==
    [alloc_ok |-> TRUE, merge_ok |-> FALSE, register_ok |-> TRUE, upstream |-> "ok",
     playlist_len |-> PlaylistLen]

RouteExts ==
    {Ext0, [Ext0 EXCEPT !.alloc_ok = FALSE], [Ext0 EXCEPT !.merge_ok = TRUE],
     [Ext0 EXCEPT !.register_ok = FALSE], [Ext0 EXCEPT !.upstream = "fail"],
     [Ext0 EXCEPT !.upstream = "epoll"], [Ext0 EXCEPT !.playlist_len = 0],
     [Ext0 EXCEPT !.register_ok = FALSE, !.upstream = "fail"],
     [Ext0 EXCEPT !.merge_ok = TRUE, !.upstream = "fail"]}

\* A client with a known address under every configuration, one without an
\* address and with MSG_ZEROCOPY enabled under the plain configuration; the status table holds one client
\* less than the cap, as many, or one more
InitRoute ==
    /\ \E cfg \in RouteConfigs, has_addr \in BOOLEAN :
          /\ has_addr \/ cfg = Config0
          /\ c = connection_create(~has_addr, has_addr)
          /\ \E n \in {MaxClients - 1, MaxClients, MaxClients + 1} :
                env = [Env0 EXCEPT !.config = cfg, !.total_clients = n,
                                   !.active_streams = 0, !.services_made = 0]
    /\ pool = [num_buffers |-> BUFFER_POOL_INITIAL_SIZE, num_free |-> BUFFER_POOL_INITIAL_SIZE,
               max_buffers |-> 2 * BUFFER_POOL_INITIAL_SIZE, low_watermark |-> 16,
               others |-> 0]
    /\ ctx = Ctx0
    /\ obs = Obs0

\* connection_handle_read returned the world w; r and parse are what read()
\* and http_parse_request answered
ReadDone(w, r, parse) ==
    /\ c' = w.conn
    /\ pool' = w.pool
    /\ env' = w.env
    /\ ctx' = w.ctx
    /\ obs' = [obs EXCEPT !.calls = w.log,
                  !.last = Called("handle_read", parse, r, "none")]

\* A readable event on the client socket
ReadEvent(r, parse, req, ext) ==
    /\ Alive
    /\ ~env.exited
    /\ ReadDone(connection_handle_read(World(c, pool, env, ctx), r, parse, req, ext),
                r, parse)

\* The read completes a request
ReadRequest ==
    /\ c.state \in {CONN_READ_REQ_LINE, CONN_READ_HEADERS}
    /\ c.in_len < INBUF_SIZE
    /\ \E req \in RouteRequests(env.config), ext \in RouteExts :
          ReadEvent(ReadChunk, 1, req, ext)

\* The read leaves the request incomplete or malformed.  On a full buffer
\* nothing is read: the parser meets the bytes it answered need-more for
ReadPartial ==
    /\ c.state \in {CONN_READ_REQ_LINE, CONN_READ_HEADERS}
    /\ \E parse \in (IF c.in_len < INBUF_SIZE THEN {0, -1} ELSE {0}) :
          ReadEvent(ReadChunk, parse, NoRequest, Ext0)

\* The read meets the end of the client's data, EAGAIN or an error
ReadNothing ==
    /\ Alive
    /\ \E r \in {0, -1, -2} : ReadEvent(r, 0, NoRequest, Ext0)

RouteWrite == ~env.exited /\ HandleWrite

RouteCompletion == ~env.exited /\ Completion

RouteClose == ~env.exited /\ CloseAndFree

NextRoute ==
    \/ ReadRequest
    \/ ReadPartial
    \/ ReadNothing
    \/ RouteWrite
    \/ RouteCompletion
    \/ RouteClose

SpecRoute == InitRoute /\ [][NextRoute]_vars

(***************************************************************************)
(* The same connection read in pieces by a client of the plain             *)
(* configuration, under an event loop that keeps delivering its events.    *)
(***************************************************************************)
FillRequests ==
    {[NoRequest EXCEPT !.method = m, !.url = <<"/">> \o p] :
        m \in RouteMethods,
        p \in {<<"c", "h", "1">>, <<"n", "o", "p", "e">>, playlist_route}}

\* A pool with room, and one that has reached its size with two buffers free
FillPools ==
    {[num_buffers |-> BUFFER_POOL_INITIAL_SIZE, num_free |-> BUFFER_POOL_INITIAL_SIZE,
      max_buffers |-> 2 * BUFFER_POOL_INITIAL_SIZE, low_watermark |-> 16, others |-> 0],
     [num_buffers |-> BUFFER_POOL_INITIAL_SIZE, num_free |-> 2,
      max_buffers |-> BUFFER_POOL_INITIAL_SIZE, low_watermark |-> 16, others |-> 0]}

InitFill ==
    /\ c = connection_create(FALSE, TRUE)
    /\ \E n \in {MaxClients - 1, MaxClients} :
          env = [Env0 EXCEPT !.total_clients = n, !.active_streams = 0,
                            !.services_made = 0]
    /\ pool \in FillPools
    /\ ctx = Ctx0
    /\ obs = Obs0

FillRequest ==
    /\ c.state \in {CONN_READ_REQ_LINE, CONN_READ_HEADERS}
    /\ c.in_len < INBUF_SIZE
    /\ \E req \in FillRequests, ext \in RouteExts : ReadEvent(ReadChunk, 1, req, ext)

NextFill ==
    \/ FillRequest
    \/ ReadPartial
    \/ ReadNothing
    \/ RouteWrite
    \/ RouteClose

SpecFill ==
    /\ InitFill
    /\ [][NextFill]_vars
    /\ WF_vars(ReadPartial)
    /\ WF_vars(ReadNothing)
    /\ WF_vars(RouteWrite)
    /\ WF_vars(RouteClose)

(***************************************************************************)
(* The slow-client detection: connection_calculate_queue_limit called at   *)
(* chosen times with chosen queue lengths, on a pool that is exhausted and *)
(* on one with room to grow.                                               *)
(***************************************************************************)
MaxSlowCalls == 5       \* limit computations in a run
SlowStep == 1500        \* milliseconds between two readings of the clock
MaxSlowNow == 6001      \* the clock stops advancing here

SlowPools ==
    {[num_buffers |-> CONN_QUEUE_MIN_BUFFERS, num_free |-> CONN_QUEUE_MIN_BUFFERS,
      max_buffers |-> m, low_watermark |-> 16, others |-> 0] :
        m \in {CONN_QUEUE_MIN_BUFFERS, 16 * CONN_QUEUE_MIN_BUFFERS}}

\* The queue lengths met by a limit computation: empty, between the exit and
\* the entry threshold or just above it, and full
SlowQueueLens(p) ==
    IF p.max_buffers > CONN_QUEUE_MIN_BUFFERS THEN {0, 100, 192} ELSE {0, 52, 64}

\* A send queue of n full buffers
BuffersQueued(n) == [i \in 1..n |-> [msg |-> i, lo |-> 0, hi |-> BUFFER_POOL_BUFFER_SIZE]]

\* fair_bytes and bursted_bytes of a limit computation in the current state
SlowFair == ShareBuffers(pool, env.active_streams) * BUFFER_POOL_BUFFER_SIZE

SlowBursted == connection_compute_limit_bytes(pool, SlowFair, BurstFactor(pool))

\* The scaled average avg is above 1.5 x fair_bytes
Above15(avg, fair_bytes) == avg > 15 * fair_bytes * (AvgScale \div 10)

\* The scaled average is above the smaller of 1.5 x fair_bytes and 0.9 x the
\* burst limit
AboveEntry(avg, fair_bytes, bursted_bytes) ==
    Above15(avg, fair_bytes) \/ avg > 90 * bursted_bytes * (AvgScale \div 100)

\* The scaled average is below the smaller of 1.1 x fair_bytes and 0.75 x the
\* burst limit
BelowExit(avg, fair_bytes, bursted_bytes) ==
    /\ avg < 11 * fair_bytes * (AvgScale \div 10)
    /\ avg < 75 * bursted_bytes * (AvgScale \div 100)

\* The time since which every limit computation found the average above a
\* threshold, -1 when the last one did not
RunSince(since, above, now_ms) ==
    IF above THEN (IF since = -1 THEN now_ms ELSE since) ELSE -1

InitSlow ==
    /\ c = StreamingConnection(FALSE)
    /\ pool \in SlowPools
    /\ env = Env0
    /\ ctx = Ctx0
    /\ obs = [Obs0 EXCEPT !.log = FALSE]

\* An enqueue computes the limit while n buffers are queued
LimitComputed(n) ==
    /\ obs.nmsg < MaxSlowCalls
    /\ c' = StoreLimit(connection_calculate_queue_limit(
                           [c EXCEPT !.zc_queue = BuffersQueued(n)],
                           pool, env.active_streams, env.now_ms))
    /\ obs' = [obs EXCEPT
                  !.nmsg = @ + 1,
                  !.last = Called("queue_limit", 0, n, "none"),
                  !.was_slow = c.slow_active,
                  !.since = RunSince(@, AboveEntry(c'.queue_avg_bytes, SlowFair,
                                                   SlowBursted), env.now_ms),
                  !.since15 = RunSince(@, Above15(c'.queue_avg_bytes, SlowFair),
                                       env.now_ms)]
    /\ UNCHANGED <<pool, env, ctx>>

SlowClock ==
    /\ env.now_ms + SlowStep <= MaxSlowNow
    /\ env' = [env EXCEPT !.now_ms = @ + SlowStep]
    /\ UNCHANGED <<c, pool, ctx, obs>>

NextSlow ==
    \/ \E n \in SlowQueueLens(pool) : LimitComputed(n)
    \/ SlowClock

SpecSlow == InitSlow /\ [][NextSlow]_vars

(***************************************************************************)
(* Specification of connection_compute_limit_bytes: the function is        *)
(* applied to pools around the reserve, fair shares and burst factors.     *)
(***************************************************************************)
MaxComputeCap == 1024      \* the largest max_buffers of a pool
MaxComputeShare == 256     \* the largest fair share, in buffers

ComputeCaps ==
    {1, 4, CONN_QUEUE_MIN_BUFFERS - 1, CONN_QUEUE_MIN_BUFFERS, CONN_QUEUE_MIN_BUFFERS + 1,
     CONN_QUEUE_MIN_BUFFERS + 6, 4 * CONN_QUEUE_MIN_BUFFERS, MaxComputeCap}

ComputeShares == {1, 8, CONN_QUEUE_MIN_BUFFERS, 2 * CONN_QUEUE_MIN_BUFFERS, MaxComputeShare}

ComputeBursts ==
    {CONN_QUEUE_SLOW_CLAMP_FACTOR, CONN_QUEUE_BURST_FACTOR_DRAIN,
     CONN_QUEUE_BURST_FACTOR_CONGESTED, CONN_QUEUE_BURST_FACTOR}

InitCompute ==
    /\ c = StreamingConnection(FALSE)
    /\ \E cap \in ComputeCaps :
          pool = [num_buffers |-> Min(cap, BUFFER_POOL_INITIAL_SIZE),
                  num_free |-> Min(cap, BUFFER_POOL_INITIAL_SIZE),
                  max_buffers |-> cap, low_watermark |-> 16, others |-> 0]
    /\ env = Env0
    /\ ctx = Ctx0
    /\ obs = Obs0

ComputeLimit ==
    /\ \E share \in ComputeShares, burst10 \in ComputeBursts :
          obs' = [obs EXCEPT
                     !.args = <<share * BUFFER_POOL_BUFFER_SIZE, burst10>>,
                     !.last = Called("compute_limit_bytes",
                                     connection_compute_limit_bytes(
                                         pool, share * BUFFER_POOL_BUFFER_SIZE, burst10),
                                     0, "none")]
    /\ UNCHANGED <<c, pool, env, ctx>>

NextCompute == ComputeLimit

SpecCompute == InitCompute /\ [][NextCompute]_vars

\* max_buffers x BUFFER_SIZE minus the reserve of CONN_QUEUE_MIN_BUFFERS buffers
CapLessReserve(p) == (p.max_buffers - CONN_QUEUE_MIN_BUFFERS) * BUFFER_POOL_BUFFER_SIZE

\* C21: connection_compute_limit_bytes returns fair_bytes x burst capped at
\* max_buffers x BUFFER_SIZE minus the reserve and floored at 4 x BUFFER_SIZE,
\* also for a pool that is not larger than the reserve.
C21_LimitIsCappedProductWithFloor ==
    obs.last.op = "compute_limit_bytes" =>
        obs.last.ret = Max(4 * BUFFER_POOL_BUFFER_SIZE,
                           Min(BurstBytes(obs.args[1], obs.args[2]), CapLessReserve(pool)))

(***************************************************************************)
(* Properties of the send queue                                            *)
(***************************************************************************)

\* The enqueued items as one byte stream: contiguous pieces of a message joined
Enqueued == AppendWire(<<>>, obs.enq)

\* w is what a receiver has seen of the byte stream e: the same segments in
\* the same order, the last one possibly cut short
IsWirePrefix(w, e) ==
    /\ Len(w) <= Len(e)
    /\ \A i \in 1..Len(w) :
          /\ w[i].msg = e[i].msg
          /\ w[i].lo = e[i].lo
          /\ IF i < Len(w) THEN w[i].hi = e[i].hi ELSE w[i].hi <= e[i].hi

\* C1: the bytes written to the client socket are a prefix of the concatenation
\* of the successfully enqueued items in enqueue order, and while the connection
\* lives the bytes still queued are exactly the rest of that concatenation (a
\* partial send resumes inside the head item, nothing is skipped or repeated).
C1_WireIsPrefixOfEnqueued ==
    /\ IsWirePrefix(obs.wire, Enqueued)
    /\ c.fd >= 0 => AppendWire(obs.wire, c.zc_queue) = Enqueued

\* A send stopped inside an item that follows items of two earlier messages
C1_Witness ==
    /\ Len(obs.wire) >= 2
    /\ c.zc_queue # <<>>
    /\ Head(c.zc_queue).lo > 0
    /\ Head(c.zc_queue).lo < Head(c.zc_queue).hi

\* A step that is a call of connection_queue_zerocopy with a non-empty buffer
IsEnqueueStep ==
    /\ obs'.nmsg = obs.nmsg + 1
    /\ obs'.last.op = "queue_zerocopy"
    /\ obs'.last.size > 0

\* The limit connection_queue_zerocopy computes when called in the current state
FreshLimit ==
    connection_calculate_queue_limit(c, buffer_pool_alloc(pool).pool,
                                     env.active_streams, env.now_ms).limit

C11_QueuedBytesWithinLimit ==
    [][IsEnqueueStep /\ obs'.last.ret = 0
       => /\ SumBytes(c'.zc_queue) <= c'.queue_limit_bytes
          /\ env'.slot_queue.queue_bytes = SumBytes(c'.zc_queue)
          /\ env'.slot_queue.queue_bytes <= c'.queue_limit_bytes]_vars

(***************************************************************************)
(* Properties of the backpressure limit                                    *)
(***************************************************************************)

\* A step that is a call of connection_queue_zerocopy under backpressure load
IsBurstStep ==
    /\ obs'.nmsg = obs.nmsg + 1
    /\ obs'.last.op = "queue_zerocopy"

\* C10: under the backpressure path every value queue_bytes_highwater takes is
\* at most the queue_limit_bytes computed by the enqueue that recorded it, and
\* the enqueue leaves the connection open in the state it was in.
C10_HighwaterWithinRecordingLimit ==
    [][IsBurstStep =>
         /\ c'.state = c.state
         /\ c'.fd = c.fd
         /\ c'.queue_bytes_highwater >= c.queue_bytes_highwater
         /\ c'.queue_bytes_highwater # c.queue_bytes_highwater =>
               c'.queue_bytes_highwater <= c'.queue_limit_bytes]_vars

\* A packet was dropped after the slow-client clamp lowered the limit, the
\* connection still streaming
C10_Witness ==
    /\ c.slow_active
    /\ c.backpressure_events >= 1
    /\ c.queue_bytes_highwater > 0
    /\ obs.last.op = "queue_zerocopy" /\ obs.last.ret = -1
    /\ c.state = CONN_STREAMING

\* C10 as stated: the high-water mark never exceeds the current limit
C10_HighwaterWithinCurrentLimit ==
    /\ c.queue_bytes_highwater <= c.queue_limit_bytes
    /\ c.state = CONN_STREAMING

(***************************************************************************)
(* Properties of the slow-client detection                                 *)
(***************************************************************************)

\* A step that is a limit computation
IsLimitStep == obs'.nmsg = obs.nmsg + 1 /\ obs'.last.op = "queue_limit"

\* C12 as stated: slow_active becomes true only after the average has been
\* above 1.5 x fair_bytes at every limit computation for 3000 ms, and an
\* average that stays above it for 3000 ms marks the connection slow
C12_SlowAfterDebounceAboveFairShare ==
    [][IsLimitStep
       => /\ ~c.slow_active /\ c'.slow_active
             => /\ obs'.since15 # -1
                /\ env.now_ms - obs'.since15 >= CONN_QUEUE_SLOW_DEBOUNCE_MS
          /\ obs'.since15 # -1 /\ env.now_ms - obs'.since15 >= CONN_QUEUE_SLOW_DEBOUNCE_MS
             => c'.slow_active]_vars

\* C12: slow_active becomes true only after the average has been above the
\* entry threshold, the smaller of 1.5 x fair_bytes and 0.9 x the burst limit,
\* at every limit computation for 3000 ms; a computation that finds it not
\* above the threshold restarts the debounce, and an average that stays above
\* it for 3000 ms marks the connection slow
C12_SlowAfterDebounceAboveEntry ==
    [][IsLimitStep
       => /\ ~c.slow_active /\ c'.slow_active
             => /\ obs'.since # -1
                /\ env.now_ms - obs'.since >= CONN_QUEUE_SLOW_DEBOUNCE_MS
          /\ obs'.since = -1 => c'.slow_candidate_since = 0
          /\ obs'.since # -1 /\ env.now_ms - obs'.since >= CONN_QUEUE_SLOW_DEBOUNCE_MS
             => c'.slow_active]_vars

\* A connection was marked slow by a run above the threshold that began after
\* an earlier reading of the clock
C12_Witness ==
    /\ obs.last.op = "queue_limit"
    /\ c.slow_active
    /\ ~obs.was_slow
    /\ obs.since > SlowStep
    /\ env.now_ms - obs.since >= CONN_QUEUE_SLOW_DEBOUNCE_MS

\* C13: a slow connection leaves the slow state exactly when its average is
\* below the exit threshold (the smaller of 1.1 x fair_bytes and 0.75 x the
\* burst limit); no average is both above the entry threshold and below the
\* exit threshold, and leaving clears slow_candidate_since
C13_SlowExitBelowEntry ==
    [][IsLimitStep
       => /\ c.slow_active
             => (~c'.slow_active
                   <=> BelowExit(c'.queue_avg_bytes, SlowFair, SlowBursted))
          /\ c.slow_active /\ ~c'.slow_active => c'.slow_candidate_since = 0
          /\ ~(/\ AboveEntry(c'.queue_avg_bytes, SlowFair, SlowBursted)
               /\ BelowExit(c'.queue_avg_bytes, SlowFair, SlowBursted))
          /\ SlowExitThreshold(SlowFair, SlowBursted)
                < SlowThreshold(SlowFair, SlowBursted)]_vars

\* A slow connection left the slow state
C13_Witness ==
    /\ obs.last.op = "queue_limit"
    /\ obs.was_slow
    /\ ~c.slow_active
    /\ c.slow_candidate_since = 0
    /\ c.queue_avg_bytes > 0

(***************************************************************************)
(* Properties of the request routing                                       *)
(***************************************************************************)

\* A step in which connection_handle_read got a complete request and routed it
IsRouteStep ==
    /\ c.state \in {CONN_READ_REQ_LINE, CONN_READ_HEADERS}
    /\ obs'.last.op = "handle_read"
    /\ obs'.last.ret = 1

\* The state right after such a step
JustRouted ==
    /\ obs.last.op = "handle_read"
    /\ obs.last.ret = 1

HasCall(log, ev) == \E i \in 1..Len(log) : log[i].ev = ev

\* The status codes of the responses among the calls, in order
RECURSIVE StatusesSent(_)
StatusesSent(log) ==
    IF log = <<>> THEN <<>>
    ELSE IF Head(log).ev \in {"error", CONTENT_MP2T, CONTENT_HTML}
    THEN <<Head(log).code>> \o StatusesSent(Tail(log))
    ELSE StatusesSent(Tail(log))

IsPrefix(p, s) == Len(s) >= Len(p) /\ SubSeq(s, 1, Len(p)) = p

\* The request is not a HEAD request
IsGet(req) == strcasecmp(req.method, HEAD) # 0

\* url[i..j] is a parameter of the query string that starts after position q:
\* a piece between '?' or '&' and '&' or the end
IsQueryParam(url, q, i, j) ==
    /\ i <= j
    /\ i = q + 1 \/ url[i - 1] = "&"
    /\ j = Len(url) \/ url[j + 1] = "&"
    /\ \A k \in i..j : url[k] # "&"

\* The query string of url, which starts after position q > 0, carries
\* r2h-token with a value that decodes to token
CarriesTokenAfter(url, q, token) ==
    /\ q # 0
    /\ \E i \in (q + 1)..Len(url), j \in (q + 1)..Len(url) :
          /\ IsQueryParam(url, q, i, j)
          /\ IsPrefix(r2h_token_param \o <<"=">>, SubSeq(url, i, j))
          /\ http_url_decode(SubSeq(url, i + Len(r2h_token_param) + 1, j))
               = [ret |-> 0, str |-> token]

CarriesToken(url, token) == CarriesTokenAfter(url, strchr(url, "?"), token)

\* The Host header is present and, up to its port and the case of its
\* letters, is the configured host
HostHeaderMatches(hostname, configured) ==
    /\ hostname # <<>>
    /\ strcasecmp(IF strchr(hostname, ":") # 0
                  THEN SubSeq(hostname, 1, strchr(hostname, ":") - 1)
                  ELSE hostname,
                  configured) = 0

\* The request passes the checks that precede the token check
PassesUrlAndHost(req, cfg) ==
    /\ req.url # <<>>
    /\ Head(req.url) = "/"
    /\ cfg.hostname = <<>> \/ HostHeaderMatches(req.hostname, cfg.hostname)

\* The path of a URL: between the leading slash and the query, less one
\* trailing slash
RequestPath(url) ==
    LET raw == IF strchr(url, "?") # 0 THEN SubSeq(url, 2, strchr(url, "?") - 1)
               ELSE Tail(url)
    IN  IF raw # <<>> /\ raw[Len(raw)] = "/" THEN SubSeq(raw, 1, Len(raw) - 1) ELSE raw

\* The path names a media service: a configured one, or a udpxy URL when udpxy
\* is enabled
NamesService(url, path, cfg, services) ==
    \/ \E i \in 1..Len(services) : services[i].url = http_url_decode(path).str
    \/ cfg.udpxy /\ (IsPrefix(udpxy_rtp, url) \/ IsPrefix(udpxy_udp, url))

\* The rejection the specification names for a request with the given path, 0
\* when it names none: total is the number of registered clients
RejectionOf(req, path, cfg, services, total) ==
    IF ~PassesUrlAndHost(req, cfg) THEN 400
    ELSE IF cfg.r2h_token # <<>> /\ ~CarriesToken(req.url, cfg.r2h_token) THEN 401
    ELSE IF path \in {cfg.status_page_route, playlist_route,
                      status_sse_route(cfg.status_page_route)}
    THEN 0
    ELSE IF IsPrefix(status_api_prefix(cfg.status_page_route), path)
    THEN IF path \in {status_api_prefix(cfg.status_page_route) \o a :
                         a \in {api_disconnect, api_log_level}}
         THEN 0 ELSE 404
    ELSE IF Len(path) >= HTTP_URL_BUFFER_SIZE THEN 400
    ELSE IF http_url_decode(path).ret # 0 THEN 400
    ELSE IF ~NamesService(req.url, path, cfg, services) THEN 404
    ELSE IF IsGet(req) /\ total > cfg.maxclients THEN 503
    ELSE 0

Rejection(req, cfg, services, total) ==
    RejectionOf(req, IF req.url = <<>> THEN <<>> ELSE RequestPath(req.url), cfg, services,
                total)

\* The route function answered a HEAD request as the specification says: 200
\* with the media type and nothing else, nothing started or registered, the
\* service freed, the connection closing
HeadAnswered ==
    /\ StatusesSent(obs'.calls) = <<STATUS_200>>
    /\ HasCall(obs'.calls, CONTENT_MP2T)
    /\ Len(c'.zc_queue) = Len(c.zc_queue) + 1
    /\ ctx' = ctx
    /\ ~HasCall(obs'.calls, "stream_context_init")
    /\ ~HasCall(obs'.calls, "status_register_client")
    /\ ~HasCall(obs'.calls, "zerocopy_register_stream_client")
    /\ c'.status_index = -1
    /\ env'.total_clients = env.total_clients
    /\ ~c'.stream_registered
    /\ env'.active_streams = env.active_streams
    /\ c'.service = NoService
    /\ env'.services_freed = env.services_freed + 1
    /\ c'.state = CONN_CLOSING
    /\ ~c'.streaming

\* C2: a HEAD request that resolves to a media service is answered 200 with
\* the media content type and no body; no upstream is opened, no status slot
\* and no stream registration is taken, the service is freed and the
\* connection goes to CLOSING, whatever the number of registered clients
C2_HeadAnsweredWithoutStream ==
    [][IsRouteStep /\ ~IsGet(c'.http_req) /\ HasCall(obs'.calls, "service_new")
       => HeadAnswered]_vars

\* A HEAD request for a service was routed while the status table was over
\* the cap
C2_Witness ==
    /\ JustRouted
    /\ ~IsGet(c.http_req)
    /\ HasCall(obs.calls, "service_new")
    /\ env.total_clients > env.config.maxclients
    /\ c.state = CONN_CLOSING
    /\ StatusesSent(obs.calls) = <<STATUS_200>>

\* The request was answered with the one error status and was not routed
\* further
OnlyAnswered(status) ==
    /\ StatusesSent(obs'.calls) = <<status>>
    /\ Len(obs'.calls) = 2
    /\ obs'.calls[1].ev = "error"
    /\ c'.state # CONN_STREAMING
    /\ ctx' = ctx

\* C3 as stated: with a token configured, every request without the exact
\* token is answered 401 and not routed, and a request with it is routed
C3_EveryRequestWithoutToken401 ==
    [][IsRouteStep /\ env.config.r2h_token # <<>>
       => IF CarriesToken(c'.http_req.url, env.config.r2h_token)
          THEN 401 \notin {StatusesSent(obs'.calls)[i] :
                              i \in 1..Len(StatusesSent(obs'.calls))}
          ELSE OnlyAnswered(401)]_vars

\* C3: with a token configured, a request that passes the URL and Host checks
\* is answered 401 and routed no further when its query does not carry
\* r2h-token with a value that decodes to the token, and is routed (never
\* answered 401) when it does; a request that fails those checks is answered
\* 400 whether or not it carries the token
C3_TokenCheckedAfterHost ==
    [][IsRouteStep /\ env.config.r2h_token # <<>>
       => IF ~PassesUrlAndHost(c'.http_req, env.config)
          THEN OnlyAnswered(400)
          ELSE IF CarriesToken(c'.http_req.url, env.config.r2h_token)
          THEN 401 \notin {StatusesSent(obs'.calls)[i] :
                              i \in 1..Len(StatusesSent(obs'.calls))}
          ELSE OnlyAnswered(401)]_vars

\* A request with the token escaped was routed to a stream, and so was not
\* answered 401
C3_Witness ==
    /\ JustRouted
    /\ env.config.r2h_token # <<>>
    /\ CarriesToken(c.http_req.url, env.config.r2h_token)
    /\ ~IsPrefix(TokenQuery, SubSeq(c.http_req.url, strchr(c.http_req.url, "?"),
                                    Len(c.http_req.url)))
    /\ strchr(c.http_req.url, "%") # 0
    /\ c.state = CONN_STREAMING

\* C4: a GET for a media path that arrives when the registered clients exceed
\* the cap is answered 503: no status slot is taken, no stream context is
\* initialised, the service is freed and the connection does not reach
\* STREAMING; a GET that arrives below the cap passes the capacity check
C4_OverCapacity503 ==
    [][IsRouteStep /\ IsGet(c'.http_req) /\ HasCall(obs'.calls, "service_new")
       => /\ env.total_clients > env.config.maxclients
             => /\ StatusesSent(obs'.calls) = <<503>>
                /\ ~HasCall(obs'.calls, "status_register_client")
                /\ c'.status_index = -1
                /\ env'.total_clients = env.total_clients
                /\ ~HasCall(obs'.calls, "stream_context_init")
                /\ ctx' = ctx
                /\ c'.service = NoService
                /\ env'.services_freed = env.services_freed + 1
                /\ c'.state # CONN_STREAMING
                /\ ~c'.streaming
          /\ env.total_clients < env.config.maxclients
             => /\ 503 \notin {StatusesSent(obs'.calls)[i] :
                                  i \in 1..Len(StatusesSent(obs'.calls))}
                /\ HasCall(obs'.calls, "stream_context_init")]_vars

\* A GET for a channel was answered 503 with the status table over the cap
C4_Witness ==
    /\ JustRouted
    /\ IsGet(c.http_req)
    /\ HasCall(obs.calls, "service_new")
    /\ env.total_clients > env.config.maxclients
    /\ StatusesSent(obs.calls) = <<503>>
    /\ c.state # CONN_STREAMING

\* C5: each rejection by the route function (400 for a URL without leading
\* slash, a missing or wrong Host, an over-long or undecodable path; 401 for
\* the token; 404 for an unknown path or control API; 503 over capacity) is
\* answered with exactly that status and leaves the connection in CLOSING,
\* not streaming, with no service and no status slot; the capacity is checked
\* once the service of the request is allocated
C5_RejectionsMapToStatus ==
    [][IsRouteStep
       => LET status == Rejection(c'.http_req, env.config, env.services,
                                  env.total_clients)
          IN  /\ status # 0
              /\ status = 503 => HasCall(obs'.calls, "service_new")
              => /\ StatusesSent(obs'.calls) = <<status>>
                 /\ c'.state = CONN_CLOSING
                 /\ ~c'.streaming
                 /\ c'.service = NoService
                 /\ c'.status_index = -1
                 /\ env'.total_clients = env.total_clients]_vars

\* An over-long path was answered 400
C5_Witness ==
    /\ JustRouted
    /\ Len(RequestPath(c.http_req.url)) >= HTTP_URL_BUFFER_SIZE
    /\ StatusesSent(obs.calls) = <<400>>
    /\ c.state = CONN_CLOSING
    /\ c.service = NoService

\* C6 as stated: a read that leaves the request incomplete keeps the state, a
\* complete request is routed exactly once, and a parse error is answered 400
\* and closes the connection
C6_ParseErrorAnswered400 ==
    [][/\ c.state \in {CONN_READ_REQ_LINE, CONN_READ_HEADERS}
       /\ obs'.last.op = "handle_read"
       /\ obs'.last.size > 0
       => /\ obs'.last.ret = 0 => c'.state = c.state /\ obs'.calls = <<>>
          /\ obs'.last.ret = 1
             => /\ Len(SelectSeq(obs'.calls, LAMBDA e : e.ev = "routed")) = 1
                /\ c'.state \notin {CONN_READ_REQ_LINE, CONN_READ_HEADERS}
          /\ obs'.last.ret < 0
             => /\ StatusesSent(obs'.calls) = <<400>>
                /\ c'.state = CONN_CLOSING]_vars

\* C15 as stated: a GET of a client with a known address that starts
\* streaming leaves the connection in STREAMING with buffer class media,
\* registered in the buffer-pool stream count and in the status table, its 200
\* headers queued; a snapshot request that starts has no response headers
\* queued
C15_StreamingStartRegistersClient ==
    [][/\ IsRouteStep
       /\ IsGet(c'.http_req)
       /\ c'.state = CONN_STREAMING
       /\ c.client_addr_len > 0
       => /\ c'.buffer_class = CONNECTION_BUFFER_MEDIA
          /\ c'.streaming
          /\ IF ctx'.snapshot_enabled
             THEN /\ StatusesSent(obs'.calls) = <<>>
                  /\ c'.zc_queue = c.zc_queue
             ELSE /\ StatusesSent(obs'.calls) = <<STATUS_200>>
                  /\ Len(c'.zc_queue) = Len(c.zc_queue) + 1
                  /\ c'.stream_registered
                  /\ env'.active_streams = env.active_streams + 1
                  /\ c'.status_index >= 0
                  /\ env'.total_clients = env.total_clients + 1]_vars

\* A step that is a call of connection_handle_write: neither a completion,
\* which shortens the pending list, nor the close of the socket
IsWriteStep ==
    /\ obs'.last.op = "handle_write"
    /\ Len(c'.zc_pending) >= Len(c.zc_pending)
    /\ c'.fd = c.fd
    /\ c.fd >= 0

\* C17: for a connection marked CLOSING connection_handle_write reports
\* CLOSED exactly when the send failed fatally or the send queue is empty
\* with no zero-copy operation pending; otherwise it reports PENDING,
\* BLOCKED or IDLE and what is queued or pending stays
C17_ClosedOnlyWhenDrained ==
    [][IsWriteStep /\ c.state = CONN_CLOSING
       => /\ obs'.last.status = CONNECTION_WRITE_CLOSED
             <=> \/ obs'.last.ret = -1
                 \/ c'.zc_queue = <<>> /\ c'.zc_pending = <<>>
          /\ obs'.last.status # CONNECTION_WRITE_CLOSED
             => /\ obs'.last.status \in {CONNECTION_WRITE_PENDING, CONNECTION_WRITE_BLOCKED,
                                          CONNECTION_WRITE_IDLE}
                /\ c'.zc_queue # <<>> \/ c'.zc_pending # <<>>
                /\ c'.state = CONN_CLOSING
                /\ c'.fd >= 0]_vars

\* The answer of a closing connection was sent with MSG_ZEROCOPY and its
\* completion is outstanding: the write reported IDLE
C17_Witness ==
    /\ obs.last.op = "handle_write"
    /\ obs.last.status = CONNECTION_WRITE_IDLE
    /\ c.state = CONN_CLOSING
    /\ c.zc_queue = <<>>
    /\ c.zc_pending # <<>>

\* C18: a connection whose input buffer is full without a complete header
\* block does not stay in READ_REQ_LINE / READ_HEADERS for ever: it reaches
\* CLOSING
C18_FullBufferLeadsToClosing ==
    (c.in_len = INBUF_SIZE /\ c.state \in {CONN_READ_REQ_LINE, CONN_READ_HEADERS})
        ~> (c.state = CONN_CLOSING)

\* The length handle_playlist_request found for the playlist, 0 for none
PlaylistFound(log) ==
    (log[CHOOSE i \in 1..Len(log) : log[i].ev = "handle_playlist_request"]).code

\* C19: the answer to /playlist.m3u with a playlist of n bytes is the 200
\* headers followed by exactly the n bytes of the playlist in order, whatever
\* the state of the pool; without a playlist the answer is 404
C19_PlaylistQueuedWhole ==
    [][IsRouteStep /\ HasCall(obs'.calls, "handle_playlist_request")
       => IF PlaylistFound(obs'.calls) = 0
          THEN StatusesSent(obs'.calls) = <<404>>
          ELSE /\ StatusesSent(obs'.calls) = <<STATUS_200>>
               /\ AppendWire(<<>>, c'.zc_queue)
                    = <<[msg |-> STATUS_200, lo |-> 0, hi |-> ResponseLen],
                        [msg |-> STATUS_200 + 1, lo |-> 0,
                         hi |-> PlaylistFound(obs'.calls)]>>]_vars

(***************************************************************************)
(* The upstream side of a stream (stream.c): ready events on the media     *)
(* sockets and the periodic tick.  rtp.c, fcc.c and snapshot.c are not     *)
(* part of the sources at hand; their functions follow the design          *)
(* document (4.4, 4.5, 4.6).  What the reorder stage hands to the          *)
(* connection is recorded as "forward" events, a declared loss as "loss".  *)
(***************************************************************************)
SeqMod == 65536                     \* uint16_t sequence numbers
MCAST_TIMEOUT_SEC == 10
SNAPSHOT_TIMEOUT_SEC == 5
RTP_REORDER_BUFFER_SIZE == 32
RTP_REORDER_TIMEOUT_MS == 40
FCC_TIMEOUT_SIGNALING_MS == 80
FCC_TIMEOUT_UNICAST_MS == 1000      \* FCC_TIMEOUT_UNICAST_SEC * 1000
FCC_TIMEOUT_SYNC_WAIT_MS == 15000   \* FCC_TIMEOUT_SYNC_WAIT_SEC * 1000
CONTENT_JPEG == "image/jpeg"

\* How far sequence number b is ahead of a, modulo 2^16
SeqDist(a, b) == (b - a + SeqMod) % SeqMod

SeqNext(s) == (s + 1) % SeqMod

\* A payload is queued on the connection
rtp_queue_payload(w, s) == Logged(w, "forward", s)

\* 4.6 (2): the consecutive occupied slots from expected are flushed in order
RECURSIVE rtp_reorder_flush(_)
rtp_reorder_flush(w) ==
    IF w.ctx.reorder_expected_seqn \in w.ctx.reorder_slots
    THEN rtp_reorder_flush(
             rtp_queue_payload([w EXCEPT !.ctx.reorder_slots =
                                             @ \ {w.ctx.reorder_expected_seqn},
                                         !.ctx.reorder_expected_seqn = SeqNext(@)],
                               w.ctx.reorder_expected_seqn))
    ELSE w

\* The buffered packet nearest to expected
NearestSlot(x) ==
    CHOOSE s \in x.reorder_slots :
        \A t \in x.reorder_slots :
            SeqDist(x.reorder_expected_seqn, s) <= SeqDist(x.reorder_expected_seqn, t)

\* The range from expected up to s, when there is one, is declared lost
rtp_reorder_lost_until(w, s) ==
    IF s = w.ctx.reorder_expected_seqn THEN w ELSE Logged(w, "loss", s)

\* 4.6 (5): what is present is flushed in order
RECURSIVE rtp_reorder_force_flush(_)
rtp_reorder_force_flush(w) ==
    IF w.ctx.reorder_slots = {} THEN w
    ELSE rtp_reorder_force_flush(
             rtp_queue_payload([rtp_reorder_lost_until(w, NearestSlot(w.ctx))
                                   EXCEPT !.ctx.reorder_slots = @ \ {NearestSlot(w.ctx)},
                                          !.ctx.reorder_expected_seqn =
                                              SeqNext(NearestSlot(w.ctx))],
                               NearestSlot(w.ctx)))

\* waiting is cleared when nothing remains pending
rtp_reorder_settle(w) ==
    IF w.ctx.reorder_slots = {} THEN [w EXCEPT !.ctx.reorder_waiting = FALSE] ELSE w

\* 4.6 (3): a packet ahead of expected inside the window is stored
rtp_reorder_store(w, s) ==
    [w EXCEPT !.ctx.reorder_slots = @ \cup {s},
              !.ctx.reorder_waiting = TRUE,
              !.ctx.reorder_wait_start = IF w.ctx.reorder_waiting THEN @
                                         ELSE w.env.now_ms]

\* 4.6 (5): a gap larger than the window
rtp_reorder_resync(w, s) ==
    [rtp_queue_payload(rtp_reorder_lost_until(rtp_reorder_force_flush(w), s), s)
        EXCEPT !.ctx.reorder_expected_seqn = SeqNext(s),
               !.ctx.reorder_waiting = FALSE]

\* rtp_reorder_and_queue, design document 4.6 (1)-(5)
rtp_reorder_and_queue(w, s) ==
    IF ~w.ctx.reorder_enabled
    THEN rtp_queue_payload(w, s)
    ELSE IF w.ctx.reorder_first_packet
    THEN rtp_queue_payload([w EXCEPT !.ctx.reorder_first_packet = FALSE,
                                     !.ctx.reorder_expected_seqn = SeqNext(s)], s)
    ELSE IF s = w.ctx.reorder_expected_seqn
    THEN rtp_reorder_settle(rtp_reorder_flush(
             rtp_queue_payload([w EXCEPT !.ctx.reorder_expected_seqn = SeqNext(s)], s)))
    ELSE IF SeqDist(w.ctx.reorder_expected_seqn, s) < RTP_REORDER_BUFFER_SIZE
    THEN rtp_reorder_store(w, s)
    ELSE IF SeqDist(w.ctx.reorder_expected_seqn, s) >= SeqMod \div 2
    THEN Logged(w, "late", s)
    ELSE rtp_reorder_resync(w, s)

\* rtp_reorder_timeout_recovery: expected moves past the missing slot and the
\* contiguous buffered packets are flushed
rtp_reorder_timeout_recovery(w) ==
    rtp_reorder_flush(Logged([w EXCEPT !.ctx.reorder_expected_seqn = SeqNext(@)],
                             "loss", w.ctx.reorder_expected_seqn))

\* snapshot_process_packet: an I-frame is converted and answered as a JPEG,
\* which ends the request
snapshot_process_packet(w, iframe) ==
    IF iframe
    THEN Returned([send_http_headers(w, STATUS_200, CONTENT_JPEG)
                      EXCEPT !.conn.state = CONN_CLOSING], 1)
    ELSE Returned(w, 0)

\* snapshot_fallback_to_streaming: the normal streaming response when the
\* request allows it, a failure otherwise
snapshot_fallback_to_streaming(w) ==
    IF w.ctx.snapshot_fallback_to_streaming
    THEN send_http_headers([w EXCEPT !.ctx.snapshot_enabled = FALSE],
                           STATUS_200, CONTENT_MP2T)
    ELSE http_send_500(w)

\* The mutant of stream_process_rtp_payload: payloads bypass the reorder stage
stream_process_rtp_payload_unordered(w, pkt) ==
    IF w.ctx.snapshot_enabled
    THEN snapshot_process_packet(w, pkt.iframe)
    ELSE Returned(rtp_queue_payload(w, pkt.seq), 1)

\* stream_process_rtp_payload
stream_process_rtp_payload(w, pkt) ==
    IF w.ctx.snapshot_enabled
    THEN snapshot_process_packet(w, pkt.iframe)
    ELSE Returned(rtp_reorder_and_queue(w, pkt.seq), 1)

\* A receive that reported would-block leaves a buffer whose content and size
\* are not those of a packet: pkt.seq < 0 stands for content no stage forwards
PayloadHandled(w, pkt) ==
    IF pkt.seq < 0 THEN Returned(w, 0) ELSE stream_process_rtp_payload(w, pkt)

\* fcc_handle_mcast_active
fcc_handle_mcast_active(w, pkt) == PayloadHandled(w, pkt)

\* fcc_handle_mcast_transition: the splice point is reached when multicast has
\* caught up to or passed the last forwarded unicast sequence number
fcc_handle_mcast_transition(w, pkt) ==
    IF pkt.seq >= 0 /\ w.ctx.fcc_unicast_seq >= 0
       /\ SeqDist(w.ctx.fcc_unicast_seq, pkt.seq) < SeqMod \div 2
    THEN PayloadHandled(fcc_session_set_state([w EXCEPT !.ctx.fcc_sock = 0],
                                              FCC_STATE_MCAST_ACTIVE), pkt)
    ELSE Returned(w, 0)

\* fcc_handle_server_response: 0 accepted, 1 redirected to another server
fcc_handle_server_response(w, res) ==
    IF res = 0 /\ w.ctx.fcc_state = FCC_STATE_REQUESTED
    THEN Returned(fcc_session_set_state(w, FCC_STATE_UNICAST_PENDING), 0)
    ELSE Returned(w, res)

\* fcc_handle_sync_notification: the multicast group is joined while unicast
\* keeps being forwarded
fcc_handle_sync_notification(w, join) ==
    IF w.ctx.fcc_state = FCC_STATE_UNICAST_ACTIVE
    THEN Returned(stream_join_mcast_group(
                      fcc_session_set_state(w, FCC_STATE_MCAST_REQUESTED), join), 0)
    ELSE Returned(w, 0)

\* fcc_handle_unicast_media
fcc_handle_unicast_media(w, pkt) ==
    IF pkt.seq < 0 THEN Returned(w, 0)
    ELSE IF w.ctx.fcc_state = FCC_STATE_UNICAST_PENDING
    THEN stream_process_rtp_payload(
             [fcc_session_set_state(w, FCC_STATE_UNICAST_ACTIVE)
                 EXCEPT !.ctx.fcc_unicast_start_time = w.env.now_ms,
                        !.ctx.fcc_unicast_seq = pkt.seq], pkt)
    ELSE IF w.ctx.fcc_state \in {FCC_STATE_UNICAST_ACTIVE, FCC_STATE_MCAST_REQUESTED}
    THEN stream_process_rtp_payload([w EXCEPT !.ctx.fcc_unicast_seq = pkt.seq], pkt)
    ELSE Returned(w, 0)

\* stream_handle_fd_event, lines 130-166: the packet by its sender
stream_fcc_dispatch(w, pkt, join) ==
    IF pkt.peer = "server"
    THEN IF pkt.type = "response"
         THEN IF fcc_handle_server_response(w, pkt.res).ret = 1
              THEN fcc_initialize_and_request(fcc_handle_server_response(w, pkt.res),
                                              pkt.retry_ok)
              ELSE fcc_handle_server_response(w, pkt.res)
         ELSE IF pkt.type = "sync"
         THEN fcc_handle_sync_notification(w, join)
         ELSE Returned(w, 0)
    ELSE IF pkt.peer = "media"
    THEN fcc_handle_unicast_media(w, pkt)
    ELSE Returned(w, 0)

\* The mutant of stream_handle_fcc_event: a receive without a buffer fails
stream_handle_fcc_event_fatal(w, rcv, join) ==
    IF ~buffer_pool_alloc(w.pool).ok
    THEN Returned(w, -1)
    ELSE IF rcv.kind = "error" THEN Returned(w, 0)
    ELSE IF rcv.peer = "other" THEN Returned(w, 0)
    ELSE stream_fcc_dispatch([w EXCEPT !.ctx.last_fcc_data_time = w.env.now_ms],
                             rcv, join)

\* stream_handle_fd_event, lines 92-169: the FCC socket.  rcv.kind is what
\* recvfrom met: "packet", "eagain" (would-block, -1) or "error"
stream_handle_fcc_event(w, rcv, join) ==
    IF ~buffer_pool_alloc(w.pool).ok
    THEN Returned([w EXCEPT !.ctx.last_fcc_data_time = w.env.now_ms], 0)
    ELSE IF rcv.kind = "error" THEN Returned(w, 0)
    ELSE IF rcv.peer = "other" THEN Returned(w, 0)
    ELSE stream_fcc_dispatch([w EXCEPT !.ctx.last_fcc_data_time = w.env.now_ms],
                             rcv, join)

\* The mutant of stream_mcast_dispatch: during the overlap multicast payloads are
\* queued as they come
stream_mcast_dispatch_raw(w, pkt) ==
    IF w.ctx.fcc_state = FCC_STATE_MCAST_ACTIVE THEN fcc_handle_mcast_active(w, pkt)
    ELSE IF w.ctx.fcc_state = FCC_STATE_MCAST_REQUESTED
    THEN Returned(rtp_queue_payload(w, pkt.seq), 1)
    ELSE Returned(w, 0)

\* lines 201-215: multicast data by FCC state
stream_mcast_dispatch(w, pkt) ==
    IF w.ctx.fcc_state = FCC_STATE_MCAST_ACTIVE THEN fcc_handle_mcast_active(w, pkt)
    ELSE IF w.ctx.fcc_state = FCC_STATE_MCAST_REQUESTED
    THEN fcc_handle_mcast_transition(w, pkt)
    ELSE Returned(w, 0)

\* The mutant of stream_handle_mcast_event: only a packet that is forwarded
\* counts as multicast data
stream_handle_mcast_event_stale(w, rcv) ==
    IF ~buffer_pool_alloc(w.pool).ok
    THEN Returned([w EXCEPT !.ctx.last_mcast_data_time = w.env.now_ms], 0)
    ELSE IF rcv.kind = "error" THEN Returned(w, 0)
    ELSE IF w.ctx.fcc_state = FCC_STATE_MCAST_ACTIVE
    THEN stream_mcast_dispatch([w EXCEPT !.ctx.last_mcast_data_time = w.env.now_ms],
                               rcv)
    ELSE stream_mcast_dispatch(w, rcv)

\* stream_handle_fd_event, lines 172-221: the multicast socket
stream_handle_mcast_event(w, rcv) ==
    IF ~buffer_pool_alloc(w.pool).ok
    THEN Returned([w EXCEPT !.ctx.last_mcast_data_time = w.env.now_ms], 0)
    ELSE IF rcv.kind = "error" THEN Returned(w, 0)
    ELSE stream_mcast_dispatch([w EXCEPT !.ctx.last_mcast_data_time = w.env.now_ms],
                               rcv)

\* stream_handle_fd_event, lines 228-250: the RTSP socket.  rcv.res is what
\* rtsp_handle_socket_event returned: bytes forwarded, -1 for an error, -2 when
\* the TEARDOWN completed
stream_handle_rtsp_event(w, rcv) == Returned(w, IF rcv.res < 0 THEN -1 ELSE 0)

\* The mutant of stream_handle_fcc_puts: the buffer of a datagram of another
\* host is not released
stream_handle_fcc_puts_foreign_kept(w, rcv) ==
    IF ~buffer_pool_alloc(w.pool).ok THEN 0
    ELSE IF rcv.kind = "error" THEN 1
    ELSE IF rcv.peer = "other" THEN 0
    ELSE IF rcv.peer = "server" /\ rcv.type = "response"
            /\ fcc_handle_server_response(w, rcv.res).ret = 1
    THEN IF fcc_initialize_and_request(w, rcv.retry_ok).ret < 0 THEN 1 ELSE 1
    ELSE 1

\* stream_handle_fd_event, lines 92-169: the calls of buffer_ref_put(recv_buf)
\* on the path the FCC socket's event takes: none without a buffer (line 110),
\* one after a failed receive (118), a foreign source (125), a failed redirect
\* (143), a redirect (146) and at the end (165)
stream_handle_fcc_puts(w, rcv) ==
    IF ~buffer_pool_alloc(w.pool).ok THEN 0
    ELSE IF rcv.kind = "error" THEN 1
    ELSE IF rcv.peer = "other" THEN 1
    ELSE IF rcv.peer = "server" /\ rcv.type = "response"
            /\ fcc_handle_server_response(w, rcv.res).ret = 1
    THEN IF fcc_initialize_and_request(w, rcv.retry_ok).ret < 0 THEN 1 ELSE 1
    ELSE 1

\* lines 172-221: the same for the multicast socket: none without a buffer
\* (line 188), one after a failed receive (195) and at the end (219)
stream_handle_mcast_puts(w, rcv) ==
    IF ~buffer_pool_alloc(w.pool).ok THEN 0
    ELSE IF rcv.kind = "error" THEN 1
    ELSE 1

\* The buffers stream_handle_fd_event takes from the pool for the event
stream_handle_fd_allocs(w, fd) ==
    IF \/ w.ctx.fcc_sock > 0 /\ fd = "fcc"
       \/ ~(w.ctx.fcc_sock > 0 /\ fd = "fcc") /\ w.ctx.mcast_sock > 0 /\ fd = "mcast"
    THEN IF buffer_pool_alloc(w.pool).ok THEN 1 ELSE 0
    ELSE 0

\* The calls of buffer_ref_put(recv_buf) of stream_handle_fd_event
stream_handle_fd_puts(w, fd, rcv) ==
    IF w.ctx.fcc_sock > 0 /\ fd = "fcc" THEN stream_handle_fcc_puts(w, rcv)
    ELSE IF w.ctx.mcast_sock > 0 /\ fd = "mcast" THEN stream_handle_mcast_puts(w, rcv)
    ELSE 0

\* stream_handle_fd_event
stream_handle_fd_event(w, fd, rcv, join) ==
    IF w.ctx.fcc_sock > 0 /\ fd = "fcc" THEN stream_handle_fcc_event(w, rcv, join)
    ELSE IF w.ctx.mcast_sock > 0 /\ fd = "mcast" THEN stream_handle_mcast_event(w, rcv)
    ELSE IF w.ctx.rtsp_socket > 0 /\ fd = "rtsp" THEN stream_handle_rtsp_event(w, rcv)
    ELSE Returned(w, 0)

\* The mutant of stream_tick_rejoin: the periodic rejoin also restarts the
\* multicast data timeout
stream_tick_rejoin_resets_data(w, now) ==
    IF w.env.config.mcast_rejoin_interval > 0 /\ w.ctx.mcast_sock > 0
       /\ now - w.ctx.last_mcast_rejoin_time >= w.env.config.mcast_rejoin_interval * 1000
    THEN [w EXCEPT !.ctx.last_mcast_rejoin_time = now,
                   !.ctx.last_mcast_data_time = now]
    ELSE w

\* stream_tick, lines 385-402: periodic rejoin, the rejoin succeeding
stream_tick_rejoin(w, now) ==
    IF w.env.config.mcast_rejoin_interval > 0 /\ w.ctx.mcast_sock > 0
       /\ now - w.ctx.last_mcast_rejoin_time >= w.env.config.mcast_rejoin_interval * 1000
    THEN [w EXCEPT !.ctx.last_mcast_rejoin_time = now]
    ELSE w

\* lines 405-414
stream_tick_mcast_timeout(x, now) ==
    x.mcast_sock > 0 /\ now - x.last_mcast_data_time >= MCAST_TIMEOUT_SEC * 1000

\* lines 445-458
stream_tick_unicast(w, now, join) ==
    IF now - w.ctx.last_fcc_data_time >= FCC_TIMEOUT_UNICAST_MS
    THEN IF w.ctx.mcast_sock = 0
         THEN stream_join_mcast_group(fcc_session_set_state(w, FCC_STATE_MCAST_ACTIVE),
                                      join)
         ELSE fcc_session_set_state(w, FCC_STATE_MCAST_ACTIVE)
    ELSE w

\* The mutant of stream_tick_sync_wait: the wait for the sync notification has
\* no duration
stream_tick_sync_wait_at_once(w, now, join) ==
    IF w.ctx.fcc_state = FCC_STATE_UNICAST_ACTIVE /\ w.ctx.fcc_unicast_start_time > 0
    THEN fcc_handle_sync_notification(w, join)
    ELSE w

\* lines 460-470
stream_tick_sync_wait(w, now, join) ==
    IF w.ctx.fcc_state = FCC_STATE_UNICAST_ACTIVE /\ w.ctx.fcc_unicast_start_time > 0
       /\ now - w.ctx.fcc_unicast_start_time >= FCC_TIMEOUT_SYNC_WAIT_MS
    THEN fcc_handle_sync_notification(w, join)
    ELSE w

\* lines 417-471
stream_tick_fcc(w, now, join) ==
    IF w.ctx.fcc_sock <= 0 THEN w
    ELSE IF w.ctx.fcc_state \in {FCC_STATE_REQUESTED, FCC_STATE_UNICAST_PENDING}
    THEN IF now - w.ctx.last_fcc_data_time >= FCC_TIMEOUT_SIGNALING_MS
         THEN stream_join_mcast_group(fcc_session_set_state(w, FCC_STATE_MCAST_ACTIVE),
                                      join)
         ELSE w
    ELSE IF w.ctx.fcc_state \in {FCC_STATE_UNICAST_ACTIVE, FCC_STATE_MCAST_REQUESTED}
    THEN stream_tick_sync_wait(stream_tick_unicast(w, now, join), now, join)
    ELSE w

\* lines 500-514
stream_tick_reorder(w, now) ==
    IF w.ctx.reorder_waiting /\ now - w.ctx.reorder_wait_start >= RTP_REORDER_TIMEOUT_MS
    THEN [rtp_reorder_timeout_recovery(w) EXCEPT !.ctx.reorder_waiting = FALSE]
    ELSE w

\* lines 516-526
stream_tick_snapshot(w, now) ==
    IF w.ctx.snapshot_enabled
       /\ now - w.ctx.snapshot_start_time > SNAPSHOT_TIMEOUT_SEC * 1000
    THEN snapshot_fallback_to_streaming(w)
    ELSE w

\* stream_tick after the rejoin; the RTSP keepalive and the status update
\* (lines 473-497, 528-548) touch no state kept here
stream_tick_rest(w, now, join) ==
    IF stream_tick_mcast_timeout(w.ctx, now)
    THEN Returned(w, -1)
    ELSE Returned(stream_tick_snapshot(
                      stream_tick_reorder(stream_tick_fcc(w, now, join), now), now), 0)

\* stream_tick
stream_tick(w, now, join) == stream_tick_rest(stream_tick_rejoin(w, now), now, join)

(***************************************************************************)
(* The worker around the stream: a ready event or a tick that returns -1   *)
(* closes and frees the connection (worker.c, design document 4.4).        *)
(***************************************************************************)
NoPacket ==
    [kind |-> "error", seq |-> -1, iframe |-> FALSE, peer |-> "other", type |-> "none",
     res |-> 0, retry_ok |-> TRUE]

IsFlushEvent(e) == e.ev \in {"forward", "loss"}

IsCallEvent(e) == e.ev \notin {"forward", "loss", "late"}

StreamOutcome(w) ==
    IF w.ret < 0
    THEN connection_free(w.conn, w.pool, w.env, w.ctx, FALSE)
    ELSE [conn |-> w.conn, pool |-> w.pool, env |-> w.env, ctx |-> w.ctx]

\* The time a multicast packet was last received, or the group last joined
LastPacketTime(x, got_mcast) ==
    IF got_mcast \/ (x.mcast_sock > 0 /\ x.mcast_sock # ctx.mcast_sock)
    THEN env.now_ms ELSE obs.last_pkt

\* The datagrams on the FCC socket that come from the FCC server: the messages
\* of its control port, the packets of its media port and of any other port
FccServerDatagrams == {"response", "sync", "none", "media", "port"}

StreamSettled(f, w, op, got, got_mcast, from) ==
    /\ Freed(f)
    /\ obs' = [obs EXCEPT !.calls = SelectSeq(w.log, IsCallEvent),
                  !.last = Called(op, w.ret, got, from),
                  !.nmsg = @ + got,
                  !.fwd = @ \o SelectSeq(w.log, IsFlushEvent),
                  !.last_pkt = LastPacketTime(w.ctx, got_mcast),
                  !.last_fcc = IF from \in FccServerDatagrams /\ ctx.fcc_sock > 0
                               THEN env.now_ms ELSE @]

StreamDone(w, op, got, got_mcast, from) ==
    StreamSettled(StreamOutcome(w), w, op, got, got_mcast, from)

Streaming == c.fd >= 0 /\ c.streaming /\ ~env.exited

FdEvent(fd, rcv, join) ==
    /\ Streaming
    /\ StreamDone(stream_handle_fd_event(World(c, pool, env, ctx), fd, rcv, join),
                  "stream_handle_fd_event",
                  IF rcv.kind = "packet" /\ rcv.seq >= 0 THEN 1 ELSE 0,
                  rcv.kind = "packet" /\ fd = "mcast" /\ ctx.mcast_sock > 0,
                  IF fd = "mcast" THEN fd
                  ELSE IF rcv.peer = "server" THEN rcv.type ELSE rcv.peer)

StreamTick ==
    /\ Streaming
    /\ \E join \in {"ok", "fail"} :
          StreamDone(stream_tick(World(c, pool, env, ctx), env.now_ms, join),
                     "stream_tick", 0, FALSE, "tick")

StreamClock(step, max_now) ==
    /\ Streaming
    /\ env.now_ms + step <= max_now
    /\ env' = [env EXCEPT !.now_ms = @ + step]
    /\ UNCHANGED <<c, pool, ctx, obs>>

(***************************************************************************)
(* Specification of the reorder stage and the FCC splice: a stream of a    *)
(* multicast service or of a service with an FCC server meets every order  *)
(* of packets on both paths and every placement of ticks.                  *)
(***************************************************************************)
MaxPackets == 3
SeqBase == 65534
MaxReorderNow == 81

StreamSeqs ==
    {(SeqBase + d) % SeqMod : d \in {0, 1, 2, RTP_REORDER_BUFFER_SIZE + 8}}

FccEvents ==
    {[NoPacket EXCEPT !.kind = "packet", !.peer = "server", !.type = "response",
                      !.res = r, !.retry_ok = ok] :
        r \in {0, 1}, ok \in BOOLEAN}
    \cup {[NoPacket EXCEPT !.kind = "packet", !.peer = "server", !.type = "sync"],
          [NoPacket EXCEPT !.kind = "packet"], NoPacket}

ReorderStart(service) ==
    stream_context_init_for_worker(
        World(StreamingConnection(TRUE),
              [num_buffers |-> BUFFER_POOL_INITIAL_SIZE,
               num_free |-> BUFFER_POOL_INITIAL_SIZE,
               max_buffers |-> 2 * BUFFER_POOL_INITIAL_SIZE, low_watermark |-> 16,
               others |-> 0],
              Env0, Ctx0),
        service, 0, Ext0)

InitReorder ==
    /\ \E i \in {1, 2} :
          /\ c = ReorderStart(ConfiguredServices[i]).conn
          /\ pool = ReorderStart(ConfiguredServices[i]).pool
          /\ env = ReorderStart(ConfiguredServices[i]).env
          /\ ctx = ReorderStart(ConfiguredServices[i]).ctx
    /\ obs = [Obs0 EXCEPT !.last_pkt = Env0.now_ms]

ReorderMcast ==
    /\ obs.nmsg < MaxPackets
    /\ \E s \in StreamSeqs :
          FdEvent("mcast", [NoPacket EXCEPT !.kind = "packet", !.peer = "group", !.seq = s],
                  "ok")

ReorderUnicast ==
    /\ obs.nmsg < MaxPackets
    /\ \E s \in StreamSeqs :
          FdEvent("fcc", [NoPacket EXCEPT !.kind = "packet", !.peer = "media", !.seq = s],
                  "ok")

ReorderFcc ==
    /\ ctx.fcc_sock > 0
    /\ \E rcv \in FccEvents, join \in {"ok", "fail"} : FdEvent("fcc", rcv, join)

ReorderClock == ctx.reorder_enabled /\ StreamClock(RTP_REORDER_TIMEOUT_MS, MaxReorderNow)

ReorderTick == ctx.reorder_enabled /\ StreamTick

NextReorder ==
    \/ ReorderMcast
    \/ ReorderUnicast
    \/ ReorderFcc
    \/ ReorderClock
    \/ ReorderTick

SpecReorder == InitReorder /\ [][NextReorder]_vars

(***************************************************************************)
(* Specification of the stream timeouts: a request for the multicast       *)
(* service, plain or for a snapshot, is routed; then packets, empty        *)
(* wake-ups and receive errors on the multicast socket interleave with     *)
(* the clock and the tick.                                                 *)
(***************************************************************************)
MaxTickPackets == 2
TickStep == 2500
MaxTickNow == 12501

TickRequests ==
    SnapshotRequests
    \cup {[NoRequest EXCEPT !.method = <<"G", "E", "T">>, !.url = <<"/", "c", "h", "1">>]}

TickPools ==
    {[num_buffers |-> BUFFER_POOL_INITIAL_SIZE, num_free |-> free,
      max_buffers |-> BUFFER_POOL_INITIAL_SIZE, low_watermark |-> 16, others |-> 0] :
        free \in {0, BUFFER_POOL_INITIAL_SIZE}}

InitTick ==
    /\ c = connection_create(FALSE, TRUE)
    /\ pool \in TickPools
    /\ env = [Env0 EXCEPT !.config.video_snapshot = TRUE, !.active_streams = 0,
                          !.services_made = 0]
    /\ ctx = Ctx0
    /\ obs = [Obs0 EXCEPT !.last_pkt = Env0.now_ms]

TickRequest ==
    /\ c.state \in {CONN_READ_REQ_LINE, CONN_READ_HEADERS}
    /\ \E req \in TickRequests : ReadEvent(ReadChunk, 1, req, Ext0)

TickMcast ==
    /\ c.state = CONN_STREAMING
    /\ obs.nmsg < MaxTickPackets
    /\ \E iframe \in BOOLEAN :
          FdEvent("mcast",
                  [NoPacket EXCEPT !.kind = "packet", !.peer = "group", !.iframe = iframe,
                                   !.seq = (SeqBase + obs.nmsg) % SeqMod],
                  "ok")

TickWakeup ==
    /\ c.state = CONN_STREAMING
    /\ ctx.mcast_sock > 0
    /\ \E kind \in {"eagain", "error"} :
          FdEvent("mcast", [NoPacket EXCEPT !.kind = kind], "ok")

TickClock == c.streaming /\ StreamClock(TickStep, MaxTickNow)

\* The worker ticks a stream until its connection is closing
TickTick == c.state = CONN_STREAMING /\ StreamTick

NextTick ==
    \/ TickRequest
    \/ TickMcast
    \/ TickWakeup
    \/ TickClock
    \/ TickTick

SpecTick == InitTick /\ [][NextTick]_vars

\* The tick the worker would run now returns the close signal
TickCloses == stream_tick(World(c, pool, env, ctx), env.now_ms, "ok").ret = -1

\* No multicast packet was received for the timeout budget
McastSilent == env.now_ms - obs.last_pkt >= MCAST_TIMEOUT_SEC * 1000

\* C7: on a stream with a joined multicast socket the tick returns the close
\* signal exactly when no multicast packet was received for MCAST_TIMEOUT_SEC.
C7_SilentMulticastClosed ==
    (Streaming /\ ctx.mcast_sock > 0) => (McastSilent <=> TickCloses)

IsTickStep == obs'.last.op = "stream_tick" /\ env'.now_ms = env.now_ms /\ Streaming

AsksSnapshotByHeader(req) ==
    req.x_request_snapshot \/ \E i \in 1..Len(req.accept) : req.accept[i] = "image/jpeg"

SnapshotTimedOut ==
    /\ ctx.snapshot_enabled
    /\ env.now_ms - ctx.snapshot_start_time > SNAPSHOT_TIMEOUT_SEC * 1000

\* C14: a tick that finds a snapshot timed out with no I-frame answered answers with the streaming
\* response and leaves snapshot mode when the request asked by the
\* X-Request-Snapshot header or by Accept: image/jpeg, and fails the request,
\* without a streaming response, when it asked only by snapshot=1.
C14_SnapshotTimeoutFallsBackOnlyIfFlagged ==
    [][(IsTickStep /\ SnapshotTimedOut /\ c.state = CONN_STREAMING /\ obs'.last.ret = 0) =>
          IF AsksSnapshotByHeader(c.http_req)
          THEN /\ ~ctx'.snapshot_enabled
               /\ HasCall(obs'.calls, CONTENT_MP2T)
               /\ c'.state = CONN_STREAMING
          ELSE /\ ~HasCall(obs'.calls, CONTENT_MP2T)
               /\ c'.state = CONN_CLOSING]_vars

\* A snapshot asked by query only timed out and the request failed
C14_Witness ==
    /\ obs.last.op = "stream_tick"
    /\ ctx.snapshot_enabled
    /\ ~AsksSnapshotByHeader(c.http_req)
    /\ env.now_ms - ctx.snapshot_start_time > SNAPSHOT_TIMEOUT_SEC * 1000
    /\ c.state = CONN_CLOSING
    /\ HasCall(obs.calls, "error")

(***************************************************************************)
(* Specification of the FCC session: a stream of the service with an FCC   *)
(* server meets server messages, unicast and multicast packets, datagrams  *)
(* of other senders, a pool that other connections drain and refill, and   *)
(* ticks at the times the FCC timeouts are due.                            *)
(***************************************************************************)
MaxFccPackets == 2

\* The readings of the clock: the start, the signalling timeout later, the
\* unicast timeout after that and the sync-wait timeout after that
FccTimes ==
    <<Env0.now_ms,
      Env0.now_ms + FCC_TIMEOUT_SIGNALING_MS,
      Env0.now_ms + FCC_TIMEOUT_SIGNALING_MS + FCC_TIMEOUT_UNICAST_MS,
      Env0.now_ms + FCC_TIMEOUT_SIGNALING_MS + FCC_TIMEOUT_UNICAST_MS
          + FCC_TIMEOUT_SYNC_WAIT_MS>>

InitFcc ==
    /\ c = ReorderStart(ConfiguredServices[2]).conn
    /\ pool = [ReorderStart(ConfiguredServices[2]).pool
                  EXCEPT !.max_buffers = BUFFER_POOL_INITIAL_SIZE]
    /\ env = ReorderStart(ConfiguredServices[2]).env
    /\ ctx = ReorderStart(ConfiguredServices[2]).ctx
    /\ obs = [Obs0 EXCEPT !.last_pkt = Env0.now_ms, !.last_fcc = Env0.now_ms]

FccServer ==
    /\ ctx.fcc_sock > 0
    /\ \E rcv \in {e \in FccEvents : e.peer = "server"}, join \in {"ok", "fail"} :
          FdEvent("fcc", rcv, join)

FccMedia ==
    /\ ctx.fcc_sock > 0
    /\ obs.nmsg < MaxFccPackets
    /\ FdEvent("fcc", [NoPacket EXCEPT !.kind = "packet", !.peer = "media",
                                       !.seq = (SeqBase + obs.nmsg) % SeqMod], "ok")

\* A datagram of another host, or of the server from a port that is neither
\* the control nor the media port
FccStranger ==
    /\ ctx.fcc_sock > 0
    /\ \E peer \in {"other", "port"} :
          FdEvent("fcc", [NoPacket EXCEPT !.kind = "packet", !.peer = peer], "ok")

FccMcast ==
    /\ ctx.mcast_sock > 0
    /\ obs.nmsg < MaxFccPackets
    /\ FdEvent("mcast", [NoPacket EXCEPT !.kind = "packet", !.peer = "group",
                                         !.seq = (SeqBase + obs.nmsg) % SeqMod], "ok")

FccClock ==
    /\ Streaming
    /\ \E i \in 1..(Len(FccTimes) - 1) :
          /\ env.now_ms = FccTimes[i]
          /\ env' = [env EXCEPT !.now_ms = FccTimes[i + 1]]
    /\ UNCHANGED <<c, pool, ctx, obs>>

FccTick == ctx.service.fcc_addr /\ StreamTick

\* The other connections take every free buffer of the pool or return them
FccPoolOther ==
    /\ Streaming
    /\ pool' = IF pool.num_free > 0
               THEN [pool EXCEPT !.num_free = 0, !.others = @ + pool.num_free]
               ELSE buffer_ref_put([pool EXCEPT !.others = 0], pool.others)
    /\ UNCHANGED <<c, env, ctx, obs>>

NextFcc ==
    \/ FccServer
    \/ FccMedia
    \/ FccStranger
    \/ FccMcast
    \/ FccClock
    \/ FccTick
    \/ FccPoolOther

SpecFcc == InitFcc /\ [][NextFcc]_vars

(***************************************************************************)
(* Specification of gaps in the reorder stage: a stream of the multicast   *)
(* service meets packets of a short range of sequence numbers in every     *)
(* order, with losses, while the clock passes the reorder timeout.         *)
(***************************************************************************)
MaxGapPackets == 3
MaxGapSeq == 4
MaxGapNow == 81

InitGap ==
    /\ c = ReorderStart(ConfiguredServices[1]).conn
    /\ pool = ReorderStart(ConfiguredServices[1]).pool
    /\ env = ReorderStart(ConfiguredServices[1]).env
    /\ ctx = ReorderStart(ConfiguredServices[1]).ctx
    /\ obs = [Obs0 EXCEPT !.last_pkt = Env0.now_ms]

GapMcast ==
    /\ obs.nmsg < MaxGapPackets
    /\ \E d \in 0..MaxGapSeq :
          FdEvent("mcast", [NoPacket EXCEPT !.kind = "packet", !.peer = "group",
                                           !.seq = (SeqBase + d) % SeqMod], "ok")

GapClock == ctx.reorder_enabled /\ StreamClock(RTP_REORDER_TIMEOUT_MS, MaxGapNow)

GapTick == ctx.reorder_enabled /\ StreamTick

NextGap ==
    \/ GapMcast
    \/ GapClock
    \/ GapTick

SpecGap == InitGap /\ [][NextGap]_vars

(***************************************************************************)
(* Specification of the end of a stream: a streaming connection of the     *)
(* multicast, the FCC or the RTSP service takes packets, then the worker   *)
(* closes it (worker.c, design document 4.7): stream_context_cleanup runs, *)
(* and connection_free follows at once or, when an asynchronous TEARDOWN   *)
(* was started, after the RTSP socket reported its completion.             *)
(***************************************************************************)
MaxEndPackets == 3
MaxEndNow == 81

EndServices == {1, 2, 3}

InitEnd ==
    /\ \E i \in EndServices :
          /\ c = ReorderStart(ConfiguredServices[i]).conn
          /\ pool = ReorderStart(ConfiguredServices[i]).pool
          /\ env = ReorderStart(ConfiguredServices[i]).env
          /\ ctx = ReorderStart(ConfiguredServices[i]).ctx
    /\ obs = [Obs0 EXCEPT !.last_pkt = Env0.now_ms]

\* The worker is between stream_context_cleanup and what follows it
Cleaned == obs.last.op = "stream_context_cleanup"

EndMcast ==
    /\ ~Cleaned /\ ~obs.teardown
    /\ obs.nmsg < MaxEndPackets
    /\ \E d \in {0, 2, 3} :
          FdEvent("mcast", [NoPacket EXCEPT !.kind = "packet", !.peer = "group",
                                           !.seq = (SeqBase + d) % SeqMod], "ok")

EndClock ==
    /\ ~Cleaned /\ ~obs.teardown
    /\ StreamClock(FCC_TIMEOUT_SIGNALING_MS, MaxEndNow)

EndTick == ~Cleaned /\ ~obs.teardown /\ StreamTick

\* An event of the RTSP socket: data, an error, or the TEARDOWN completed
EndRtsp ==
    /\ Streaming /\ ~Cleaned
    /\ ctx.rtsp_socket > 0
    /\ \E res \in (IF obs.teardown THEN {-2, -1} ELSE {0, -1}) :
          obs' = [obs EXCEPT !.last =
                     Called("stream_handle_fd_event",
                            stream_handle_fd_event(World(c, pool, env, ctx), "rtsp",
                                                   [NoPacket EXCEPT !.res = res], "ok").ret,
                            0, "rtsp")]
    /\ UNCHANGED <<c, pool, env, ctx>>

\* worker_close_and_free_connection, first half: the stream is cleaned up.  The
\* worker closes a connection when the client is gone or a handler returned
\* -1; while a TEARDOWN is in flight it waits for the RTSP socket
EndCleanup ==
    /\ Streaming /\ ~Cleaned
    /\ obs.teardown => obs.last = Called("stream_handle_fd_event", -1, 0, "rtsp")
    /\ \E rtsp_async \in (IF ctx.rtsp_socket > 0 /\ ~obs.teardown
                           THEN BOOLEAN ELSE {FALSE}) :
          /\ Freed(stream_context_cleanup([conn |-> c, pool |-> pool, env |-> env,
                                           ctx |-> ctx], rtsp_async))
          /\ obs' = [obs EXCEPT !.last = Called("stream_context_cleanup",
                                                stream_context_cleanup_ret(rtsp_async),
                                                Cardinality(ctx.reorder_slots), "none"),
                                !.teardown = rtsp_async]

\* worker_close_and_free_connection, second half: a complete cleanup is
\* followed by connection_free
EndFree ==
    /\ c.fd >= 0
    /\ Cleaned /\ obs.last.ret = 0
    /\ Freed(connection_free([c EXCEPT !.streaming = FALSE], pool, env, ctx, FALSE))
    /\ obs' = [obs EXCEPT !.last = Called("connection_free", 0, 0, "none")]

\* worker_close_and_free_connection, second half: the free is deferred
EndDefer ==
    /\ c.fd >= 0
    /\ Cleaned /\ obs.last.ret = 1
    /\ obs' = [obs EXCEPT !.last = Called("defer", 0, 0, "none")]
    /\ UNCHANGED <<c, pool, env, ctx>>

NextEnd ==
    \/ EndMcast
    \/ EndClock
    \/ EndTick
    \/ EndRtsp
    \/ EndCleanup
    \/ EndFree
    \/ EndDefer

SpecEnd == InitEnd /\ [][NextEnd]_vars

(***************************************************************************)
(* Specification of the flush: media packets are enqueued on a streaming   *)
(* connection whose socket stays writable; the worker calls                *)
(* connection_handle_write when the socket is ready and EPOLLOUT is among  *)
(* the events asked for, and the clock and the tick go on.  The write      *)
(* events and the clock are fair, the arrival of packets is not.           *)
(***************************************************************************)
MaxFlushMsgs == 4
FlushStep == 100
MaxFlushNow == 101

InitFlush ==
    /\ c = StreamingConnection(FALSE)
    /\ pool = [num_buffers |-> BUFFER_POOL_INITIAL_SIZE,
               num_free |-> BUFFER_POOL_INITIAL_SIZE,
               max_buffers |-> 2 * BUFFER_POOL_INITIAL_SIZE, low_watermark |-> 16,
               others |-> 0]
    /\ env = Env0
    /\ ctx = ReorderStart(ConfiguredServices[1]).ctx
    /\ obs = [Obs0 EXCEPT !.log = FALSE]

FlushEnqueue ==
    /\ \E size \in {1316, BUFFER_POOL_BUFFER_SIZE} : EnqueuePacket(size, MaxFlushMsgs)

\* The socket is writable: some or all of the batch is accepted
FlushWrite ==
    /\ c.epollout
    /\ c.zc_queue # <<>>
    /\ \E n \in SendAmounts(c.zc_queue) :
          WriteEvent([kind |-> "sent", n |-> n, zc |-> FALSE], FALSE)

FlushClock == c.fd >= 0 /\ StreamClock(FlushStep, MaxFlushNow)

FlushTick == c.fd >= 0 /\ StreamTick

NextFlush ==
    \/ FlushEnqueue
    \/ FlushWrite
    \/ FlushClock
    \/ FlushTick

SpecFlush ==
    /\ InitFlush
    /\ [][NextFlush]_vars
    /\ WF_vars(FlushWrite)
    /\ WF_vars(FlushClock)
    /\ WF_vars(FlushTick)

(***************************************************************************)
(* Specification of the periodic rejoin: the FCC session of SpecFcc with   *)
(* mcast_rejoin_interval configured, so that a stream that has joined the  *)
(* group (after a fallback, a sync notification or a timeout) rejoins it   *)
(* in a later tick.                                                        *)
(***************************************************************************)
RejoinIntervalSec == 1

InitRejoin ==
    /\ c = ReorderStart(ConfiguredServices[2]).conn
    /\ pool = ReorderStart(ConfiguredServices[2]).pool
    /\ env = [ReorderStart(ConfiguredServices[2]).env
                 EXCEPT !.config.mcast_rejoin_interval = RejoinIntervalSec]
    /\ ctx = ReorderStart(ConfiguredServices[2]).ctx
    /\ obs = [Obs0 EXCEPT !.last_pkt = Env0.now_ms, !.last_fcc = Env0.now_ms]

RejoinServer ==
    /\ ctx.fcc_sock > 0
    /\ \E rcv \in {e \in FccEvents : e.peer = "server"}, join \in {"ok", "fail"} :
          FdEvent("fcc", rcv, join)

RejoinMcast ==
    /\ ctx.mcast_sock > 0
    /\ obs.nmsg < MaxFccPackets
    /\ FdEvent("mcast", [NoPacket EXCEPT !.kind = "packet", !.peer = "group",
                                         !.seq = (SeqBase + obs.nmsg) % SeqMod], "ok")

RejoinClock ==
    /\ Streaming
    /\ \E i \in 1..(Len(FccTimes) - 1) :
          /\ env.now_ms = FccTimes[i]
          /\ env' = [env EXCEPT !.now_ms = FccTimes[i + 1]]
    /\ UNCHANGED <<c, pool, ctx, obs>>

RejoinTick == ctx.service.fcc_addr /\ StreamTick

NextRejoin ==
    \/ RejoinServer
    \/ RejoinMcast
    \/ RejoinClock
    \/ RejoinTick

SpecRejoin == InitRejoin /\ [][NextRejoin]_vars

(***************************************************************************)
(* Specification of the progress of the FCC session: the FCC server and    *)
(* the multicast group send what they like until the clock reads           *)
(* LiveQuietAt and are silent afterwards, the clock goes on long enough    *)
(* for every timeout of stream_tick to expire after the last datagram, and *)
(* the worker runs the tick at least once per second (design document      *)
(* 4.4), so the clock and the tick are fair.                               *)
(***************************************************************************)
LiveQuietAt == 16081
LiveControlUntil == 81

\* The readings of the clock: those of FccTimes, then the unicast timeout
\* after the last datagram
LiveTimes == FccTimes \o <<FccTimes[Len(FccTimes)] + FCC_TIMEOUT_UNICAST_MS>>

InitLive ==
    /\ c = ReorderStart(ConfiguredServices[2]).conn
    /\ pool = ReorderStart(ConfiguredServices[2]).pool
    /\ env = ReorderStart(ConfiguredServices[2]).env
    /\ ctx = ReorderStart(ConfiguredServices[2]).ctx
    /\ obs = [Obs0 EXCEPT !.last_pkt = Env0.now_ms, !.last_fcc = Env0.now_ms]

LiveServer ==
    /\ ctx.fcc_sock > 0
    /\ env.now_ms <= LiveControlUntil
    /\ \E rcv \in {e \in FccEvents : e.peer = "server"}, join \in {"ok", "fail"} :
          FdEvent("fcc", rcv, join)

LiveMedia ==
    /\ ctx.fcc_sock > 0
    /\ env.now_ms <= LiveQuietAt
    /\ obs.nmsg < MaxFccPackets
    /\ FdEvent("fcc", [NoPacket EXCEPT !.kind = "packet", !.peer = "media",
                                       !.seq = (SeqBase + obs.nmsg) % SeqMod], "ok")

LiveMcast ==
    /\ ctx.mcast_sock > 0
    /\ env.now_ms <= LiveQuietAt
    /\ obs.nmsg < MaxFccPackets
    /\ FdEvent("mcast", [NoPacket EXCEPT !.kind = "packet", !.peer = "group",
                                         !.seq = (SeqBase + obs.nmsg) % SeqMod], "ok")

LiveClock ==
    /\ Streaming
    /\ \E i \in 1..(Len(LiveTimes) - 1) :
          /\ env.now_ms = LiveTimes[i]
          /\ env' = [env EXCEPT !.now_ms = LiveTimes[i + 1]]
    /\ UNCHANGED <<c, pool, ctx, obs>>

LiveTick == ctx.service.fcc_addr /\ StreamTick

NextLive ==
    \/ LiveServer
    \/ LiveMedia
    \/ LiveMcast
    \/ LiveClock
    \/ LiveTick

SpecLive ==
    /\ InitLive
    /\ [][NextLive]_vars
    /\ WF_vars(LiveClock)
    /\ WF_vars(LiveTick)

(***************************************************************************)
(* Specification of the receive buffers: every event of the FCC and of the *)
(* multicast socket of an FCC stream, with the buffer the handler takes    *)
(* from the pool counted: the queue and the reorder slots keep a reference *)
(* of their own to a packet they take, the handler drops its reference.    *)
(* The pool starts with one free buffer and grows once, or cannot grow.    *)
(* A socket is also reported ready with nothing to read: the receive       *)
(* answers would-block and leaves the sender's address as it was on the    *)
(* stack, which is any address.                                            *)
(***************************************************************************)
MaxRefPackets == 3
MaxRefNow == 81

InitRefs ==
    /\ c = ReorderStart(ConfiguredServices[2]).conn
    /\ \E room \in {0, BUFFER_POOL_EXPAND_SIZE} :
          pool = [num_buffers |-> BUFFER_POOL_INITIAL_SIZE, num_free |-> 1,
                  max_buffers |-> BUFFER_POOL_INITIAL_SIZE + room,
                  low_watermark |-> 16, others |-> BUFFER_POOL_INITIAL_SIZE - 1]
    /\ env = ReorderStart(ConfiguredServices[2]).env
    /\ ctx = ReorderStart(ConfiguredServices[2]).ctx
    /\ obs = [Obs0 EXCEPT !.args = <<0, 0, 0, "none">>]

\* The packet of the event is kept by the queue or by a reorder slot
BufferTaken(w, r, rcv) ==
    IF rcv.seq < 0 THEN 0
    ELSE IF \/ rcv.seq \in r.ctx.reorder_slots \ w.ctx.reorder_slots
            \/ \E i \in 1..Len(r.log) : r.log[i] = [ev |-> "forward", code |-> rcv.seq]
    THEN 1 ELSE 0

\* The pool after the handler returned: the buffer goes back to the free list
\* with the put that drops its last reference
BufferReleased(p, allocs, puts, taken) ==
    IF allocs = 0 THEN buffer_ref_put(p, puts)
    ELSE IF puts > taken
    THEN buffer_ref_put(buffer_pool_alloc(p).pool, puts - taken)
    ELSE buffer_pool_alloc(p).pool

RefsSettled(w, r, fd, rcv, taken) ==
    /\ Freed(StreamOutcome(
           [r EXCEPT !.pool = BufferReleased(w.pool, stream_handle_fd_allocs(w, fd),
                                             stream_handle_fd_puts(w, fd, rcv), taken)]))
    /\ obs' = [obs EXCEPT !.calls = SelectSeq(r.log, IsCallEvent),
                  !.last = Called("stream_handle_fd_event", r.ret,
                                  IF rcv.kind = "packet" /\ rcv.seq >= 0 THEN 1 ELSE 0,
                                  IF fd = "mcast" THEN fd
                                  ELSE IF rcv.peer = "server" THEN rcv.type
                                  ELSE rcv.peer),
                  !.nmsg = @ + (IF rcv.kind = "packet" /\ rcv.seq >= 0 THEN 1 ELSE 0),
                  !.fwd = @ \o SelectSeq(r.log, IsFlushEvent),
                  !.args = <<stream_handle_fd_allocs(w, fd),
                             stream_handle_fd_puts(w, fd, rcv), taken, rcv.kind>>]

RefsEvent(fd, rcv, join) ==
    /\ Streaming
    /\ RefsSettled(World(c, pool, env, ctx),
                   stream_handle_fd_event(World(c, pool, env, ctx), fd, rcv, join),
                   fd, rcv,
                   BufferTaken(World(c, pool, env, ctx),
                               stream_handle_fd_event(World(c, pool, env, ctx),
                                                      fd, rcv, join),
                               rcv))

RefsSeqs == {(SeqBase + d) % SeqMod : d \in 0..(MaxRefPackets - 1)}

\* A message of the FCC server, a datagram of another host, a failed receive
RefsControl ==
    /\ ctx.fcc_sock > 0
    /\ \E rcv \in FccEvents : RefsEvent("fcc", rcv, "ok")

RefsMedia ==
    /\ ctx.fcc_sock > 0
    /\ obs.nmsg < MaxRefPackets
    /\ \E s \in RefsSeqs :
          RefsEvent("fcc", [NoPacket EXCEPT !.kind = "packet", !.peer = "media",
                                            !.seq = s], "ok")

RefsMcast ==
    /\ ctx.mcast_sock > 0
    /\ obs.nmsg < MaxRefPackets
    /\ \E s \in RefsSeqs :
          RefsEvent("mcast", [NoPacket EXCEPT !.kind = "packet", !.peer = "group",
                                              !.seq = s], "ok")

RefsMcastError ==
    /\ ctx.mcast_sock > 0
    /\ RefsEvent("mcast", NoPacket, "ok")

\* The receive reports would-block; on the FCC socket peer_addr was not written
RefsWakeup ==
    \/ /\ ctx.mcast_sock > 0
       /\ RefsEvent("mcast", [NoPacket EXCEPT !.kind = "eagain"], "ok")
    \/ /\ ctx.fcc_sock > 0
       /\ \E rcv \in FccEvents \cup {[NoPacket EXCEPT !.peer = "media"]} :
             RefsEvent("fcc", [rcv EXCEPT !.kind = "eagain"], "ok")

RefsClock ==
    /\ env.now_ms < MaxRefNow
    /\ StreamClock(MaxRefNow - env.now_ms, MaxRefNow)

NextRefs ==
    \/ RefsControl
    \/ RefsMedia
    \/ RefsMcast
    \/ RefsMcastError
    \/ RefsWakeup
    \/ RefsClock

SpecRefs == InitRefs /\ [][NextRefs]_vars

(***************************************************************************)
(* Specification of parallel workers: each worker process routes one GET   *)
(* request for the service with an FCC server on a connection of its own.  *)
(* The                                                                     *)
(* client count of the status table is in shared memory; a worker reads it *)
(* in the capacity check (connection.c 741-748) and changes it in          *)
(* status_register_client (line 818) and in connection_free, and the other *)
(* workers run between these steps.  obs.workers holds each worker's       *)
(* connection, stream context and position; c and ctx are those of the     *)
(* worker that ran last.                                                   *)
(***************************************************************************)
MaxWorkers == 3

Workers == 1..MaxWorkers

WorkerRequest ==
    [NoRequest EXCEPT !.method = <<"G", "E", "T">>, !.url = <<"/", "f", "c", "c">>]

InitWorkers ==
    /\ c = [connection_create(FALSE, TRUE) EXCEPT !.http_req = WorkerRequest]
    /\ pool = [num_buffers |-> BUFFER_POOL_INITIAL_SIZE,
               num_free |-> BUFFER_POOL_INITIAL_SIZE,
               max_buffers |-> 2 * BUFFER_POOL_INITIAL_SIZE, low_watermark |-> 16,
               others |-> 0]
    /\ \E n \in 0..MaxClients :
          env = [Env0 EXCEPT !.total_clients = n, !.active_streams = 0,
                             !.services_made = 0]
    /\ ctx = Ctx0
    /\ obs = [Obs0 EXCEPT !.workers =
                 [i \in Workers |->
                     [pc |-> "route",
                      conn |-> [connection_create(FALSE, TRUE)
                                   EXCEPT !.http_req = WorkerRequest],
                      ctx |-> Ctx0]]]

\* Worker i has run up to pc and its step left the world r
WorkerDone(i, pc, op, r) ==
    /\ c' = r.conn
    /\ pool' = r.pool
    /\ env' = r.env
    /\ ctx' = r.ctx
    /\ obs' = [obs EXCEPT !.workers[i] = [pc |-> pc, conn |-> r.conn, ctx |-> r.ctx],
                  !.last = Called(op, r.ret, i, "none")]

WorkerWorld(i) ==
    World(obs.workers[i].conn, pool, env, obs.workers[i].ctx)

\* Lines 684-748: the worker clones the service and reads the client count;
\* over the cap it answers 503 and frees the copy
WorkerCheck(i) ==
    /\ obs.workers[i].pc = "route"
    /\ IF route_capacity_reached(ServiceMade(WorkerWorld(i)))
       THEN WorkerDone(i, "closing", "capacity_check",
                       Returned(route_capacity(ServiceMade(WorkerWorld(i)),
                                               service_clone(ConfiguredServices[2], TRUE),
                                               TRUE, Ext0), -1))
       ELSE WorkerDone(i, "admitted", "capacity_check",
                       Returned(ServiceMade(WorkerWorld(i)), 0))

\* Lines 787-855: the worker registers the client and starts the stream
WorkerRegister(i) ==
    /\ obs.workers[i].pc = "admitted"
    /\ \E ext \in {Ext0, [Ext0 EXCEPT !.register_ok = FALSE],
                   [Ext0 EXCEPT !.upstream = "fail"]} :
          WorkerDone(i,
                     IF route_stream(WorkerWorld(i),
                                     service_clone(ConfiguredServices[2], TRUE),
                                     TRUE, 0, ext).ret = 0
                     THEN "streaming" ELSE "closing",
                     "register",
                     route_stream(WorkerWorld(i),
                                  service_clone(ConfiguredServices[2], TRUE),
                                  TRUE, 0, ext))

\* The worker closes and frees its connection
WorkerFree(i) ==
    /\ obs.workers[i].pc \in {"streaming", "closing"}
    /\ WorkerDone(i, "freed", "connection_free",
                  World(connection_free(obs.workers[i].conn, pool, env,
                                        obs.workers[i].ctx, FALSE).conn,
                        connection_free(obs.workers[i].conn, pool, env,
                                        obs.workers[i].ctx, FALSE).pool,
                        connection_free(obs.workers[i].conn, pool, env,
                                        obs.workers[i].ctx, FALSE).env,
                        connection_free(obs.workers[i].conn, pool, env,
                                        obs.workers[i].ctx, FALSE).ctx))

WorkersCheck ==
    /\ \E i \in Workers : WorkerCheck(i)

WorkersRegister ==
    /\ \E i \in Workers : WorkerRegister(i)

WorkersFree ==
    /\ \E i \in Workers : WorkerFree(i)

NextWorkers ==
    \/ WorkersCheck
    \/ WorkersRegister
    \/ WorkersFree

SpecWorkers == InitWorkers /\ [][NextWorkers]_vars

(***************************************************************************)
(* Properties of the reorder stage and of the FCC splice                   *)
(***************************************************************************)
\* Forward events at i and j with no forward event between them
ConsecutiveFlushes(f, i, j) ==
    /\ i < j
    /\ f[i].ev = "forward"
    /\ f[j].ev = "forward"
    /\ \A k \in (i + 1)..(j - 1) : f[k].ev # "forward"

\* C20: the sequence numbers the reorder stage flushes to the connection are
\* strictly increasing modulo 2^16, and two consecutive ones differ by more
\* than one only where a loss was declared between them (timeout recovery or a
\* gap larger than the window), whatever the arrival order and the ticks.
C20_FlushedStrictlyIncreasing ==
    \A i, j \in 1..Len(obs.fwd) :
        ConsecutiveFlushes(obs.fwd, i, j) =>
            /\ SeqDist(obs.fwd[i].code, obs.fwd[j].code) \in 1..(SeqMod \div 2 - 1)
            /\ (SeqDist(obs.fwd[i].code, obs.fwd[j].code) > 1 => j > i + 1)

\* Packets arrived out of order, a loss was declared and later packets flushed
C20_Witness ==
    /\ Len(obs.fwd) >= 3
    /\ obs.fwd[Len(obs.fwd)].ev = "forward"
    /\ \E k \in 1..Len(obs.fwd) : obs.fwd[k].ev = "loss"
    /\ obs.fwd[Len(obs.fwd)].code < obs.fwd[1].code

\* C8: across an FCC splice the sequence numbers forwarded to the client never
\* go back modulo 2^16 and none is delivered twice, for every interleaving of
\* unicast and multicast arrivals.
C8_SpliceForwardsEachSequenceOnce ==
    ctx.service.fcc_addr =>
        \A i, j \in 1..Len(obs.fwd) :
            (i < j /\ obs.fwd[i].ev = "forward" /\ obs.fwd[j].ev = "forward") =>
                /\ obs.fwd[i].code # obs.fwd[j].code
                /\ SeqDist(obs.fwd[i].code, obs.fwd[j].code) < SeqMod \div 2

\* The splice happened: unicast was forwarded, multicast took over, the FCC
\* socket is closed and a payload beyond the last unicast one was forwarded
C8_Witness ==
    /\ ctx.service.fcc_addr
    /\ ctx.fcc_state = FCC_STATE_MCAST_ACTIVE
    /\ ctx.fcc_sock = 0
    /\ ctx.fcc_unicast_seq >= 0
    /\ Len(obs.fwd) >= 2
    /\ obs.fwd[Len(obs.fwd)].ev = "forward"
    /\ SeqDist(ctx.fcc_unicast_seq, obs.fwd[Len(obs.fwd)].code) \in 1..(SeqMod \div 2 - 1)

\* C16: an error met inside the stream pipeline of a connection (a receive
\* failure, a failed join or epoll registration, an FCC or RTSP failure, a
\* timeout) keeps the stream running or closes that connection; it never
\* terminates the worker.
C16_StreamErrorsKeepWorkerRunning == ~env.exited

(***************************************************************************)
(* Properties of the limit of a slow connection                            *)
(***************************************************************************)
\* C22: a limit computation that ends with slow_active set returns a limit
\* computed with a burst factor of at most 0.8: at most 0.8 x fair_bytes unless
\* the floor of 4 buffers applies, and never more than the limit the same pool
\* gives a connection that is not slow.
C22_SlowLimitClamped ==
    [][(IsLimitStep /\ c'.slow_active) =>
          /\ c'.queue_limit_bytes
                <= Max(4 * BUFFER_POOL_BUFFER_SIZE,
                       BurstBytes(SlowFair, CONN_QUEUE_SLOW_CLAMP_FACTOR))
          /\ c'.queue_limit_bytes <= SlowBursted]_vars

\* A slow connection was given less than the pool gives the others
C22_Witness ==
    /\ obs.last.op = "queue_limit"
    /\ c.slow_active
    /\ c.queue_limit_bytes = BurstBytes(SlowFair, CONN_QUEUE_SLOW_CLAMP_FACTOR)
    /\ c.queue_limit_bytes < SlowBursted

(***************************************************************************)
(* Properties of the FCC session.                                          *)
(***************************************************************************)
\* A step of the stream, as opposed to a step of the clock or of the pool
IsStreamStep == env'.now_ms = env.now_ms /\ pool'.others = pool.others /\ Streaming

\* A packet was received on the multicast socket with a buffer to hold it
IsMcastPacketStep ==
    /\ IsStreamStep
    /\ obs'.last.op = "stream_handle_fd_event"
    /\ obs'.last.status = "mcast"
    /\ obs'.last.size = 1
    /\ ctx.mcast_sock > 0
    /\ pool.num_free > 0

\* C23: a packet received on the multicast socket is forwarded as it comes only
\* in MCAST_ACTIVE, changes the FCC sub-state (the splice) only in
\* MCAST_REQUESTED, and in every other sub-state is neither forwarded nor
\* changes the sub-state; in all three cases last_mcast_data_time is updated.
C23_McastDispatchedByFccState ==
    [][IsMcastPacketStep
        => /\ ctx'.last_mcast_data_time = env.now_ms
           /\ ctx'.fcc_state # ctx.fcc_state => ctx.fcc_state = FCC_STATE_MCAST_REQUESTED
           /\ ctx.fcc_state = FCC_STATE_MCAST_REQUESTED /\ obs'.fwd # obs.fwd
                  => ctx'.fcc_state = FCC_STATE_MCAST_ACTIVE /\ ctx'.fcc_sock = 0
           /\ ctx.fcc_state \notin {FCC_STATE_MCAST_ACTIVE, FCC_STATE_MCAST_REQUESTED}
                  => obs'.fwd = obs.fwd /\ ctx'.fcc_state = ctx.fcc_state
           /\ ctx.fcc_state = FCC_STATE_MCAST_ACTIVE /\ ctx.reorder_first_packet
                  => obs'.fwd # obs.fwd]_vars

\* A multicast packet was dropped in a sub-state that takes no multicast, after
\* one was forwarded in MCAST_ACTIVE
C23_Witness ==
    /\ obs.last.op = "stream_handle_fd_event"
    /\ obs.last.status = "mcast"
    /\ obs.last.size = 1
    /\ ctx.fcc_state = FCC_STATE_REQUESTED
    /\ ctx.mcast_sock > 0
    /\ ctx.last_mcast_data_time = env.now_ms
    /\ env.now_ms > Env0.now_ms
    /\ obs.fwd # <<>>

\* A datagram was read from the FCC socket whose sender is from
IsFccStepFrom(from) ==
    /\ IsStreamStep
    /\ obs'.last.op = "stream_handle_fd_event"
    /\ obs'.last.status = from
    /\ ctx.fcc_sock > 0

\* C24: a datagram on the FCC socket that does not come from the FCC server is
\* not forwarded, changes neither the FCC sub-state nor last_fcc_data_time and
\* its buffer is released; a datagram of the server from a port that is neither
\* the control nor the media port is not forwarded and changes no FCC state.
C24_StrangersCannotTouchFcc ==
    [][/\ IsFccStepFrom("other")
           => /\ obs'.fwd = obs.fwd
              /\ ctx'.fcc_state = ctx.fcc_state
              /\ ctx'.last_fcc_data_time = ctx.last_fcc_data_time
              /\ pool' = pool
       /\ IsFccStepFrom("port")
           => /\ obs'.fwd = obs.fwd
              /\ ctx'.fcc_state = ctx.fcc_state
              /\ ctx'.fcc_sock = ctx.fcc_sock
              /\ ctx'.mcast_sock = ctx.mcast_sock]_vars

\* The same with a buffer at hand for the datagram
C24_StrangersWithBuffer ==
    [][pool.num_free > 0
         => /\ IsFccStepFrom("other")
                => /\ obs'.fwd = obs.fwd
                   /\ ctx' = ctx
                   /\ pool' = pool
            /\ IsFccStepFrom("port")
                => /\ obs'.fwd = obs.fwd
                   /\ ctx' = [ctx EXCEPT !.last_fcc_data_time = env.now_ms]]_vars

\* The FCC sub-states in the order of the negotiation
FccOrder ==
    <<FCC_STATE_INIT, FCC_STATE_REQUESTED, FCC_STATE_UNICAST_PENDING,
      FCC_STATE_UNICAST_ACTIVE, FCC_STATE_MCAST_REQUESTED, FCC_STATE_MCAST_ACTIVE>>

FccRank(state) == CHOOSE i \in 1..Len(FccOrder) : FccOrder[i] = state

\* C25: the FCC sub-state stays, moves to the next state of the negotiation or
\* falls back to MCAST_ACTIVE; it never moves backwards and MCAST_ACTIVE is
\* never left.
C25_FccStateOnlyMovesForward ==
    [][Streaming /\ c'.streaming
         => \/ ctx'.fcc_state = ctx.fcc_state
            \/ FccRank(ctx'.fcc_state) = FccRank(ctx.fcc_state) + 1
            \/ ctx'.fcc_state = FCC_STATE_MCAST_ACTIVE]_vars

\* The same while the server sends no redirect
C25_ForwardWithoutRedirect ==
    [][Streaming /\ c'.streaming
          /\ ~(\E i \in 1..Len(obs'.calls) : obs'.calls[i].ev = "fcc_request")
         => \/ ctx'.fcc_state = ctx.fcc_state
            \/ FccRank(ctx'.fcc_state) = FccRank(ctx.fcc_state) + 1
            \/ ctx'.fcc_state = FCC_STATE_MCAST_ACTIVE]_vars

\* The step of a tick on a session with an FCC socket in one of the states
IsFccTickStep(states) ==
    /\ IsStreamStep
    /\ obs'.last.op = "stream_tick"
    /\ ctx.fcc_sock > 0
    /\ ctx.fcc_state \in states
    /\ ~stream_tick_mcast_timeout(ctx, env.now_ms)

\* The step called stream_join_mcast_group, which answered code
JoinAnswered(code) ==
    \E i \in 1..Len(obs'.calls) :
        obs'.calls[i] = [ev |-> "join_mcast_group", code |-> code]

\* The step joined the group, or tried to and the join failed
FellBackToMcast ==
    /\ ctx'.fcc_state = FCC_STATE_MCAST_ACTIVE
    /\ \/ /\ JoinAnswered(1)
          /\ ctx'.mcast_sock > 0
          /\ ctx'.last_mcast_data_time = env.now_ms
       \/ JoinAnswered(-1) /\ ctx'.mcast_sock < 0
    /\ c'.streaming
    /\ obs'.last.ret = 0

\* The tick of a session that is signalling, the server last heard at heard
SignalingTick(heard) ==
    IsFccTickStep({FCC_STATE_REQUESTED, FCC_STATE_UNICAST_PENDING})
        => IF env.now_ms - heard >= FCC_TIMEOUT_SIGNALING_MS
           THEN FellBackToMcast
           ELSE /\ ctx'.fcc_state = ctx.fcc_state
                /\ ctx'.fcc_sock = ctx.fcc_sock
                /\ ctx'.mcast_sock = ctx.mcast_sock

\* C26: in REQUESTED or UNICAST_PENDING, when no packet of the server has
\* arrived on the FCC socket for the signalling timeout the tick sets
\* MCAST_ACTIVE and joins the multicast group without closing the connection;
\* before that the tick changes neither the state nor the sockets.
C26_SignalingTimeoutFallsBack == [][SignalingTick(obs.last_fcc)]_vars

\* The same measured from last_fcc_data_time
C26_SignalingTimeoutByTimestamp == [][SignalingTick(ctx.last_fcc_data_time)]_vars

\* The tick of a session receiving unicast, the FCC path last heard at heard:
\* joined is what counts as a joined multicast socket
StallTick(heard, joined) ==
    IsFccTickStep({FCC_STATE_UNICAST_ACTIVE, FCC_STATE_MCAST_REQUESTED})
       /\ env.now_ms - heard >= FCC_TIMEOUT_UNICAST_MS
        => /\ ctx'.fcc_state = FCC_STATE_MCAST_ACTIVE
           /\ (JoinAnswered(1) \/ JoinAnswered(-1)) <=> ~joined
           /\ joined => ctx'.mcast_sock = ctx.mcast_sock
           /\ JoinAnswered(1) => ctx'.mcast_sock > 0

\* C27: in UNICAST_ACTIVE or MCAST_REQUESTED, when no FCC packet has arrived for
\* the unicast timeout the tick sets MCAST_ACTIVE and joins the multicast group
\* if and only if it is not joined; a joined multicast socket is kept.
C27_UnicastStallFallsBack == [][StallTick(obs.last_fcc, ctx.mcast_sock > 0)]_vars

\* The same measured from last_fcc_data_time, a socket whose join failed
\* counting as joined
C27_UnicastStallByTimestamp ==
    [][StallTick(ctx.last_fcc_data_time, ctx.mcast_sock # 0)]_vars

\* The step left UNICAST_ACTIVE for MCAST_REQUESTED: the group is joined (or the
\* join was tried and failed) and the FCC socket stays open for the unicast
MovedToMcastRequested ==
    /\ ctx'.fcc_state = FCC_STATE_MCAST_REQUESTED
    /\ \/ JoinAnswered(1) /\ ctx'.mcast_sock > 0
       \/ JoinAnswered(-1)
    /\ ctx'.fcc_sock = ctx.fcc_sock
    /\ c'.streaming

SyncWaitDue ==
    /\ ctx.fcc_unicast_start_time > 0
    /\ env.now_ms - ctx.fcc_unicast_start_time >= FCC_TIMEOUT_SYNC_WAIT_MS

UnicastStalled == env.now_ms - ctx.last_fcc_data_time >= FCC_TIMEOUT_UNICAST_MS

\* What holds of the sync notification and of the sync wait whichever check of
\* the tick comes first: the notification read in UNICAST_ACTIVE moves to
\* MCAST_REQUESTED, unicast is forwarded in MCAST_REQUESTED, and no tick enters
\* MCAST_REQUESTED from another state than UNICAST_ACTIVE or before the wait
SyncRules ==
    /\ IsFccStepFrom("sync") /\ pool.num_free > 0
          /\ ctx.fcc_state = FCC_STATE_UNICAST_ACTIVE
         => MovedToMcastRequested
    /\ IsFccStepFrom("media") /\ pool.num_free > 0
          /\ ctx.fcc_state = FCC_STATE_MCAST_REQUESTED
         => /\ obs'.fwd # obs.fwd \/ ctx'.reorder_slots # ctx.reorder_slots
            /\ ctx'.fcc_state = FCC_STATE_MCAST_REQUESTED
    /\ IsStreamStep /\ obs'.last.op = "stream_tick"
          /\ ctx'.fcc_state = FCC_STATE_MCAST_REQUESTED
          /\ ctx.fcc_state # FCC_STATE_MCAST_REQUESTED
         => ctx.fcc_state = FCC_STATE_UNICAST_ACTIVE /\ SyncWaitDue

\* C28 as claimed: the first tick of UNICAST_ACTIVE at which the sync wait has
\* lasted the sync-wait timeout moves to MCAST_REQUESTED and joins the group.
C28_SyncWaitAlwaysMoves ==
    [][/\ SyncRules
       /\ IsFccTickStep({FCC_STATE_UNICAST_ACTIVE}) /\ SyncWaitDue
            => MovedToMcastRequested]_vars

\* C28: a session in UNICAST_ACTIVE moves to MCAST_REQUESTED, joining the group
\* with the FCC socket kept, when the sync notification is read or at the tick
\* at which the sync wait has lasted the sync-wait timeout, unless the unicast
\* stall timeout is due at that tick, which then falls back to MCAST_ACTIVE;
\* the sync wait is applied in no other sub-state and not before it is due.
C28_SyncOrSyncWaitMovesToMcastRequested ==
    [][/\ SyncRules
       /\ IsFccTickStep({FCC_STATE_UNICAST_ACTIVE}) /\ ~UnicastStalled
            => IF SyncWaitDue
               THEN MovedToMcastRequested
               ELSE ctx'.fcc_state = ctx.fcc_state /\ ctx'.mcast_sock = ctx.mcast_sock
       /\ IsFccTickStep({FCC_STATE_UNICAST_ACTIVE}) /\ UnicastStalled
            => ctx'.fcc_state = FCC_STATE_MCAST_ACTIVE]_vars

\* The sync wait ran out on a session whose unicast still flows, and the tick
\* joined the group
C28_Witness ==
    /\ obs.last.op = "stream_tick"
    /\ ctx.fcc_state = FCC_STATE_MCAST_REQUESTED
    /\ ctx.mcast_sock > 0
    /\ ctx.fcc_sock > 0
    /\ ctx.last_mcast_data_time = env.now_ms
    /\ env.now_ms - ctx.fcc_unicast_start_time >= FCC_TIMEOUT_SYNC_WAIT_MS
    /\ env.now_ms - ctx.last_fcc_data_time < FCC_TIMEOUT_UNICAST_MS

\* A receive event on a socket of the stream found the pool without a buffer
IsExhaustedReceive(on_mcast) ==
    /\ IsStreamStep
    /\ obs'.last.op = "stream_handle_fd_event"
    /\ (obs'.last.status = "mcast") = on_mcast
    /\ IF on_mcast THEN ctx.mcast_sock > 0 ELSE ctx.fcc_sock > 0
    /\ ~buffer_pool_alloc(pool).ok

\* C29: a receive event of the multicast or of the FCC socket that finds the
\* buffer pool exhausted drops the packet: the path's last-data timestamp is
\* set to now, nothing else of the stream changes, nothing is forwarded or
\* enqueued, and the handler returns 0 with the connection kept.
C29_ExhaustedPoolDropsPacket ==
    [][/\ IsExhaustedReceive(TRUE)
            => /\ ctx' = [ctx EXCEPT !.last_mcast_data_time = env.now_ms]
               /\ obs'.fwd = obs.fwd
               /\ <<c, pool, env>>' = <<c, pool, env>>
               /\ obs'.last.ret = 0
       /\ IsExhaustedReceive(FALSE)
            => /\ ctx' = [ctx EXCEPT !.last_fcc_data_time = env.now_ms]
               /\ obs'.fwd = obs.fwd
               /\ <<c, pool, env>>' = <<c, pool, env>>
               /\ obs'.last.ret = 0]_vars

\* A packet of the server's media port was dropped for want of a buffer while
\* unicast was being forwarded, and the stream goes on
C29_Witness ==
    /\ obs.last = Called("stream_handle_fd_event", 0, 1, "media")
    /\ ~buffer_pool_alloc(pool).ok
    /\ ctx.fcc_state = FCC_STATE_UNICAST_ACTIVE
    /\ ctx.last_fcc_data_time = env.now_ms
    /\ env.now_ms > Env0.now_ms
    /\ Len(obs.fwd) = 1
    /\ obs.nmsg = 2
    /\ Streaming

(***************************************************************************)
(* Properties of the reorder timeout.                                      *)
(***************************************************************************)
\* The tick at which the wait for a missing packet has lasted the timeout
IsReorderTimeoutStep ==
    /\ IsStreamStep
    /\ obs'.last.op = "stream_tick"
    /\ obs'.last.ret = 0
    /\ ctx.reorder_waiting
    /\ env.now_ms - ctx.reorder_wait_start >= RTP_REORDER_TIMEOUT_MS

IsForwardEvent(e) == e.ev = "forward"

\* The number of payloads the step forwarded
ForwardedNow ==
    Len(SelectSeq(obs'.fwd, IsForwardEvent)) - Len(SelectSeq(obs.fwd, IsForwardEvent))

\* expected moved past the missing slot and over the buffered packets that
\* follow it without a gap, which were forwarded
RecoveredPastGap ==
    /\ SeqDist(ctx.reorder_expected_seqn, ctx'.reorder_expected_seqn) \in
           1..(Cardinality(ctx.reorder_slots) + 1)
    /\ ctx'.reorder_expected_seqn \notin ctx'.reorder_slots
    /\ ctx'.reorder_slots \subseteq ctx.reorder_slots
    /\ ForwardedNow = Cardinality(ctx.reorder_slots) - Cardinality(ctx'.reorder_slots)
    /\ ForwardedNow = SeqDist(ctx.reorder_expected_seqn, ctx'.reorder_expected_seqn) - 1

\* C30: when the reorder wait times out the tick moves expected past the
\* missing slot and flushes the contiguous buffered packets; reorder_waiting
\* is cleared only if no packet remains buffered, and stays set otherwise.
C30_WaitingKeptWhilePacketsRemain ==
    [][IsReorderTimeoutStep
         => /\ RecoveredPastGap
            /\ ctx'.reorder_waiting = (ctx'.reorder_slots # {})]_vars

\* The same with reorder_waiting cleared whatever remains buffered
C30_WaitingAlwaysCleared ==
    [][IsReorderTimeoutStep
         => /\ RecoveredPastGap
            /\ ~ctx'.reorder_waiting]_vars

(***************************************************************************)
(* Properties of the end of a stream.                                      *)
(***************************************************************************)
IsCleanupStep == ~Cleaned /\ obs'.last.op = "stream_context_cleanup"

\* C31: every call of stream_context_cleanup releases the occupied reorder
\* slots, cleans up the FCC session and closes the multicast socket; it returns
\* 1 and keeps the service pointer when an asynchronous TEARDOWN was started,
\* and returns 0 with the pointer cleared and the service not freed otherwise.
\* A connection whose cleanup returned 1 is freed only after the RTSP socket
\* handler reported the close signal.
C31_CleanupReleasesAndDefers ==
    [][/\ IsCleanupStep
            => /\ ctx'.reorder_slots = {}
               /\ pool'.num_free = pool.num_free + Cardinality(ctx.reorder_slots)
               /\ ctx'.fcc_sock = 0
               /\ ctx'.mcast_sock = 0
               /\ env'.services_freed = env.services_freed
               /\ c' = c
               /\ IF obs'.last.ret = 1
                  THEN ctx'.service = ctx.service /\ ctx.service # NoService
                  ELSE obs'.last.ret = 0 /\ ctx'.service = NoService
       /\ c.fd >= 0 /\ c'.fd < 0 => ~obs.teardown
       /\ obs.teardown /\ ~obs'.teardown
            => obs.last = Called("stream_handle_fd_event", -1, 0, "rtsp")]_vars

\* The cleanup of an RTSP stream returned 1 and the free of its connection was
\* deferred
C31_Witness ==
    /\ obs.last.op = "defer"
    /\ obs.teardown
    /\ c.fd >= 0
    /\ ctx.service.rtsp_url

C32_ArmedEventuallyDrained == (c.epollout /\ c.zc_queue # <<>>) ~> (c.zc_queue = <<>>)

\* EPOLLOUT is asked for by the enqueue that finds a flush due, and once asked
\* for it is removed only by the write that drains the queue
C32_WritableInterestKept ==
    [][/\ obs'.last.op = "queue_zerocopy" /\ obs'.last.ret = 0
          /\ c'.zc_queue # c.zc_queue /\ zerocopy_should_flush(c', env.now_ms)
            => c'.epollout
       /\ c.epollout /\ ~c'.epollout => c'.zc_queue = <<>>]_vars

(***************************************************************************)
(* Properties of the join and of the periodic rejoin.                      *)
(***************************************************************************)
\* The step called stream_join_mcast_group and the group was joined
JoinedNow == IsStreamStep /\ env'.mcast_joined > env.mcast_joined

\* The step is a tick that did the periodic rejoin of lines 385-403
PeriodicRejoinNow ==
    /\ IsStreamStep
    /\ obs'.last.op = "stream_tick"
    /\ env.config.mcast_rejoin_interval > 0
    /\ ctx.mcast_sock > 0
    /\ env.now_ms - ctx.last_mcast_rejoin_time
          >= env.config.mcast_rejoin_interval * 1000

FccSettled ==
    \/ ~Streaming
    \/ ctx.fcc_state = FCC_STATE_MCAST_ACTIVE /\ ctx.mcast_sock > 0

\* C34: with fair ticks, a stream started on the FCC path eventually is in
\* MCAST_ACTIVE with the multicast group joined, or its connection is closed.
C34_FccEventuallySettles == (Streaming /\ ctx.service.fcc_addr) ~> FccSettled

\* The same as long as no call of stream_join_mcast_group fails
C34_SettlesUnlessJoinFails ==
    (Streaming /\ ctx.service.fcc_addr) ~> (FccSettled \/ ctx.mcast_sock < 0)

(***************************************************************************)
(* Properties of the service copy of a connection.                         *)
(***************************************************************************)
\* The service copies that are allocated and not freed
ServicesHeld == env.services_made - env.services_freed

\* C35: the service a connection holds is a copy the connection owns, never an
\* entry of the configured list, and the list is as configured; every copy the
\* route function made is freed once: the copies made and not yet freed are
\* the one the connection holds, a streaming connection holds its copy until
\* connection_free, and a freed connection holds none.
C35_ServiceCopyFreedOnce ==
    /\ env.services = ConfiguredServices
    /\ c.service # NoService
          => /\ c.service.kind \in {"merged", "clone", "udpxy"}
             /\ c.service_owned
             /\ c.streaming
             /\ c.fd >= 0
    /\ c.fd >= 0 /\ c.state = CONN_STREAMING => c.service # NoService
    /\ ~env.exited => ServicesHeld = IF c.service # NoService THEN 1 ELSE 0

\* A connection that streamed its copy of a configured service has been freed
C35_Witness ==
    /\ c.fd < 0
    /\ c.buffer_class = CONNECTION_BUFFER_MEDIA
    /\ c.service = NoService
    /\ env.services_made = 1
    /\ env.services_freed = 1

(***************************************************************************)
(* Properties of the receive buffers.                                      *)
(***************************************************************************)
IsReceiveStep == IsStreamStep /\ obs'.last.op = "stream_handle_fd_event"

\* The buffers of the pool that are not in the free list
BuffersInUse(p) == p.num_buffers - p.num_free

\* C36: the handler releases its reference to the buffer it allocated exactly
\* once on every return path and releases nothing when it allocated none, so
\* the buffers in use grow by the packet a queue or a reorder slot took and by
\* nothing else; the free count itself grows when the allocation made the
\* pool grow.
C36_HandlerReferenceReleasedOnce ==
    [][IsReceiveStep
       => /\ obs'.args[2] = obs'.args[1]
          /\ c'.fd >= 0 => BuffersInUse(pool') = BuffersInUse(pool) + obs'.args[3]
          /\ pool'.num_free >= 0]_vars

\* C36 as claimed: the free count of the pool is unchanged by an event that
\* forwards nothing.
C36_FreeCountUnchanged ==
    [][IsReceiveStep
       => /\ obs'.args[2] = obs'.args[1]
          /\ c'.fd >= 0 /\ obs'.args[3] = 0 => pool'.num_free = pool.num_free]_vars

\* An event allocated a buffer with the free list empty, forwarded nothing
\* and released the buffer into the pool that grew
C36_Witness ==
    /\ obs.last.op = "stream_handle_fd_event"
    /\ obs.args = <<1, 1, 0, "packet">>
    /\ c.fd >= 0
    /\ pool.num_buffers > BUFFER_POOL_INITIAL_SIZE
    /\ pool.num_free = BUFFER_POOL_EXPAND_SIZE

(***************************************************************************)
(* Properties of a wake-up without data.                                   *)
(***************************************************************************)
\* The receive of the step reported would-block
IsWouldBlockStep == IsReceiveStep /\ obs'.args[4] = "eagain"

\* C37: a ready event whose receive reports would-block forwards nothing and
\* stores nothing in the reorder stage, and changes neither
\* last_mcast_data_time, last_fcc_data_time nor the FCC sub-state.
C37_WouldBlockChangesNothing ==
    [][IsWouldBlockStep
       => /\ obs'.fwd = obs.fwd
          /\ ctx'.reorder_slots = ctx.reorder_slots
          /\ ctx'.last_mcast_data_time = ctx.last_mcast_data_time
          /\ ctx'.last_fcc_data_time = ctx.last_fcc_data_time
          /\ ctx'.fcc_state = ctx.fcc_state]_vars

\* The part that holds: nothing is forwarded or stored, and the handler's
\* buffer is released
C37_WouldBlockForwardsNothing ==
    [][IsWouldBlockStep
       => /\ obs'.fwd = obs.fwd
          /\ c'.fd >= 0 => ctx'.reorder_slots = ctx.reorder_slots
          /\ obs'.args[2] = obs'.args[1]
          /\ obs'.args[3] = 0]_vars

(***************************************************************************)
(* Properties of the joined multicast socket.                              *)
(***************************************************************************)
\* C38: stream_join_mcast_group joins the group only when mcast_sock refers to
\* no open socket, so a stream never has more than one joined socket.
C38_JoinsOnlyWithoutSocket ==
    [][IsStreamStep /\ env'.mcast_joined > env.mcast_joined
       => /\ ctx.mcast_sock <= 0
          /\ env'.mcast_joined <= 1]_vars

\* The joins of the tick's unicast branch and of the first sync notification
\* keep to that: they join with mcast_sock = 0 only
C38_StallJoinsOnlyWithoutSocket ==
    [][/\ IsFccTickStep({FCC_STATE_UNICAST_ACTIVE, FCC_STATE_MCAST_REQUESTED})
       /\ env.now_ms - ctx.last_fcc_data_time >= FCC_TIMEOUT_UNICAST_MS
       /\ env'.mcast_joined > env.mcast_joined
       => ctx.mcast_sock = 0]_vars

(***************************************************************************)
(* Properties of parallel workers.                                         *)
(***************************************************************************)
\* The workers whose connection holds a slot of the status table
SlotHolders ==
    {i \in DOMAIN obs.workers :
        obs.workers[i].conn.fd >= 0 /\ obs.workers[i].conn.status_index >= 0}

C39_CheckRejectsAtCap ==
    [][\A i \in Workers :
          /\ obs.workers[i].pc = "route"
          /\ obs'.workers[i].pc # "route"
          /\ env.total_clients >= env.config.maxclients
          => /\ obs'.workers[i].pc = "closing"
             /\ obs'.workers[i].conn.status_index = -1
             /\ env'.total_clients = env.total_clients]_vars

(***************************************************************************)
(* Properties of the registrations.                                        *)
(***************************************************************************)
\* The workers whose connection is counted as a stream client of the pool
StreamRegistrants ==
    {i \in DOMAIN obs.workers :
        obs.workers[i].conn.fd >= 0 /\ obs.workers[i].conn.stream_registered}

\* The clients of the status table that are not connections of the workers
OtherClients == env.total_clients - Cardinality(SlotHolders)

\* C40: the client count of the status table moves with the connections that
\* hold a slot and the stream-client count with the connections that are
\* registered: a slot is taken once and released once by connection_free, also
\* after a failed stream initialisation, the stream-client count is
\* incremented once and decremented once, and nothing else changes either
\* count; so with every connection freed both counts are what they were.
C40_RegistrationsBalanced ==
    [][/\ OtherClients' = OtherClients
       /\ env'.active_streams = Cardinality(StreamRegistrants')
       /\ \A i \in Workers :
             obs'.workers[i].pc = "freed"
             => /\ i \notin SlotHolders'
                /\ i \notin StreamRegistrants'
                /\ ~obs'.workers[i].conn.stream_registered]_vars

\* Every worker has freed its connection: one had streamed, one had taken a
\* slot before its stream failed to start
C40_Witness ==
    /\ obs.workers # <<>>
    /\ \A i \in DOMAIN obs.workers : obs.workers[i].pc = "freed"
    /\ \E i \in DOMAIN obs.workers :
          obs.workers[i].conn.buffer_class = CONNECTION_BUFFER_MEDIA
    /\ \E i \in DOMAIN obs.workers :
          /\ obs.workers[i].conn.status_index >= 0
          /\ obs.workers[i].conn.buffer_class # CONNECTION_BUFFER_MEDIA
    /\ env.active_streams = 0
    /\ env.total_clients <= MaxClients

=============================================================================
